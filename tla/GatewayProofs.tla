--------------------------- MODULE GatewayProofs ---------------------------
(***************************************************************************)
(* Theorems about Gateway for every set of emails, accounts, keys and      *)
(* requests, every limit and every clock: types, unique emails, one live   *)
(* key, who a served request acts for, and what the limiter admits and     *)
(* promises.                                                               *)
(***************************************************************************)
EXTENDS Gateway, FiniteLemmas

Hashes == {hash_password(p) : p \in Passwords}
ReadPCs == {"verify", "count", "add", "oldest", "permit", "served"}
CheckedPCs == ReadPCs \ {"verify"}
ReqPCs == ReadPCs \cup {"idle", "insert", "keys", "create", "rotate", "admin", "lookup"}
Signatures == {compute_signature(hash_api_secret(s), t) : s \in 1 .. MaxSecrets, t \in Int} \cup {<<>>}

Request == [pc : ReqPCs, user : UserIds \cup {0}, email : Emails, password : Hashes \cup {<<>>},
            admin : BOOLEAN, key : KeyIds \cup {0}, sig : Signatures, ts : Int,
            need : SUBSET Permissions, row : KeyRow \cup {NoKey}, at : Nat, late : BOOLEAN]

\* The types that TypeOK leaves out, and a bound on the secrets.
Stores ==
    /\ profile \in Profiles /\ clock \in 0 .. profile.time
    /\ users \in [UserIds -> UserRow \cup {NoUser}]
    /\ keys \in [KeyIds -> KeyRow \cup {NoKey}]
    /\ \A t \in tokens : t.user \in UserIds /\ t.exp \in Nat
    /\ issued \in Seq([key : KeyIds, user : UserIds]) /\ Len(issued) <= MaxSecrets
    /\ errands \in 0 .. Errands /\ contested \subseteq UserIds

Limiter ==
    /\ zset \in [KeyIds -> SUBSET (0 .. clock)] /\ admitted \in [KeyIds -> SUBSET (0 .. clock)]
    /\ expiry \in [KeyIds -> Nat \cup {Never}]

Typed == req \in [Requests -> Request] /\ \A r \in Requests : req[r].at <= clock

Unique == \A u, v \in UserIds :
    users[u] # NoUser /\ users[v] # NoUser /\ users[u].email = users[v].email => u = v

\* The secret was handed out for key k to user u.
Handed(list, secret, k, u) ==
    \E s \in DOMAIN list : secret = hash_api_secret(s) /\ list[s] = [key |-> k, user |-> u]

KeysHanded == \A k \in KeyIds : keys[k] # NoKey => Handed(issued, keys[k].secret, k, keys[k].user)

Live(k, u) == keys[k] # NoKey /\ keys[k].user = u /\ ~keys[k].revoked

SingleKey == \A u \in UserIds \ contested : \A k, l \in KeyIds : Live(k, u) /\ Live(l, u) => k = l

\* What a request that has read the row of its key knows of it.
RowKnown(r) ==
    /\ req[r].row \in KeyRow /\ keys[req[r].key] # NoKey
    /\ keys[req[r].key].user = req[r].row.user /\ keys[req[r].key].perms = req[r].row.perms
    /\ keys[req[r].key].revoked \/ keys[req[r].key].secret # req[r].row.secret => req[r].late
    /\ Handed(issued, req[r].row.secret, req[r].key, req[r].row.user)

\* What a request stands for at each of its steps.
Sound(r) ==
    /\ req[r].pc = "insert" => req[r].password \in Hashes
    /\ req[r].pc \in {"keys", "create", "rotate"} => req[r].user \in UserIds
    /\ req[r].pc = "create" /\ req[r].user \notin contested => \A k \in KeyIds : ~Live(k, req[r].user)
    /\ req[r].pc = "rotate" => /\ req[r].key \in KeyIds /\ keys[req[r].key] # NoKey
                               /\ keys[req[r].key].user = req[r].user
    /\ req[r].pc \in ReadPCs \cup {"lookup"} => req[r].key \in KeyIds
    /\ req[r].pc \in ReadPCs => RowKnown(r)
    /\ req[r].pc \in CheckedPCs => /\ req[r].sig = compute_signature(req[r].row.secret, req[r].ts)
                                   /\ req[r].at - req[r].ts \in -Replay .. Replay
    /\ req[r].pc = "served" => req[r].need \subseteq req[r].row.perms

Ind == /\ Stores /\ Limiter /\ Typed /\ Unique /\ KeysHanded /\ SingleKey
       /\ \A r \in Requests : Sound(r)

-----------------------------------------------------------------------------
(* Requests.                                                               *)

LEMMA IdleRequest == Idle \in Request /\ Idle.pc = "idle" /\ Idle.at = 0
BY GatewayAssumption DEF Idle, Request, ReqPCs, Signatures

\* Request r becomes h, and no other changes.
Becomes(r, h) ==
    /\ req' \in [Requests -> Request] /\ req'[r] = h
    /\ \A q \in Requests : q # r => req'[q] = req[q]

LEMMA Put ==
    ASSUME Typed, NEW r \in Requests, NEW h \in Request, req' = [req EXCEPT ![r] = h]
    PROVE  Becomes(r, h)
BY DEF Typed, Becomes

LEMMA Finished ==
    ASSUME Typed, NEW r \in Requests, Finish(r)
    PROVE  Becomes(r, Idle)
BY IdleRequest, Put DEF Finish

LEMMA StampsKept ==
    ASSUME Typed, NEW r \in Requests, NEW h, Becomes(r, h), h.at <= clock, clock' = clock
    PROVE  Typed'
BY DEF Typed, Becomes

LEMMA Quiet ==
    ASSUME NEW r \in Requests, req'[r].pc \in {"idle", "admin"}
    PROVE  Sound(r)'
BY DEF Sound, ReadPCs, CheckedPCs

LEMMA OneRequest ==
    ASSUME Ind, NEW r \in Requests, NEW h, Becomes(r, h), Sound(r)',
           UNCHANGED <<keys, issued, contested>>
    PROVE  KeysHanded' /\ SingleKey' /\ \A q \in Requests : Sound(q)'
<1>1. KeysHanded' /\ SingleKey'
  BY DEF Ind, KeysHanded, SingleKey, Handed, Live
<1>2. ASSUME NEW q \in Requests, q # r
      PROVE  Sound(q)'
  BY <1>2 DEF Ind, Becomes, Sound, RowKnown, Handed, Live
<1> QED
  BY <1>1, <1>2

LEMMA StoresKept ==
    ASSUME Stores, Unique, UNCHANGED <<profile, clock, users, keys, tokens, issued, contested>>,
           errands' \in 0 .. Errands
    PROVE  Stores' /\ Unique'
BY DEF Stores, Unique

LEMMA LimiterKept ==
    ASSUME Limiter, UNCHANGED <<clock, zset, admitted, expiry>>
    PROVE  Limiter'
BY DEF Limiter

LEMMA ClockIs == ASSUME Stores
                 PROVE  clock \in Nat /\ profile.time \in 0 .. MaxTime
BY GatewayAssumption DEF Stores

\* A step of one request that leaves the tables and the limiter alone.
LEMMA RequestOnly ==
    ASSUME Ind, NEW r \in Requests, NEW h, Becomes(r, h), h.at <= clock, Sound(r)',
           UNCHANGED <<profile, clock, tables, zset, admitted, expiry, contested>>,
           errands' \in 0 .. Errands
    PROVE  Ind'
<1>1. Stores' /\ Unique' /\ Limiter' /\ Typed'
  BY StoresKept, LimiterKept, StampsKept DEF Ind, tables
<1>2. KeysHanded' /\ SingleKey' /\ \A q \in Requests : Sound(q)'
  BY OneRequest DEF tables
<1> QED
  BY <1>1, <1>2 DEF Ind

LEMMA Ends ==
    ASSUME Ind, NEW r \in Requests, Finish(r),
           UNCHANGED <<profile, clock, tables, zset, admitted, expiry, errands, contested>>
    PROVE  Ind'
<1>1. Stores /\ Typed
  BY DEF Ind
<1>2. Becomes(r, Idle) /\ Idle.at <= clock
  BY <1>1, Finished, IdleRequest, ClockIs
<1>3. Sound(r)'
  BY <1>2, Quiet, IdleRequest DEF Becomes
<1>4. errands' \in 0 .. Errands
  BY <1>1 DEF Stores
<1> QED
  BY <1>2, <1>3, <1>4, RequestOnly

-----------------------------------------------------------------------------
(* Accounts.                                                               *)

LEMMA RegisterReadKeeps ==
    ASSUME Ind, NEW r \in Requests, NEW email \in Emails, NEW p \in Passwords, NEW admin \in BOOLEAN,
           RegisterRead(r, email, p, admin)
    PROVE  Ind'
<1>1. Stores /\ Typed
  BY DEF Ind
<1> DEFINE h == [Idle EXCEPT !.pc = "insert", !.email = email, !.admin = admin,
                             !.password = hash_password(p)]
<1>2. h \in Request /\ h.pc = "insert" /\ h.password \in Hashes /\ h.at = 0
  BY IdleRequest DEF Request, ReqPCs, Hashes
<1>3. req' = [req EXCEPT ![r] = h]
  BY DEF RegisterRead
<1> HIDE DEF h
<1>4. Becomes(r, h)
  BY <1>1, <1>2, <1>3, Put
<1>5. h.at <= clock
  BY <1>1, <1>2, ClockIs
<1>6. Sound(r)'
  BY <1>2, <1>4 DEF Becomes, Sound, ReadPCs, CheckedPCs
<1> QED
  BY <1>1, <1>4, <1>5, <1>6, RequestOnly DEF RegisterRead, limiter, Stores

LEMMA RegisterInsertKeeps ==
    ASSUME Ind, NEW r \in Requests, NEW u \in UserIds, RegisterInsert(r, u)
    PROVE  Ind'
<1>1. Stores /\ Typed /\ Unique /\ Limiter /\ Sound(r) /\ req[r] \in Request /\ req[r].pc = "insert"
  BY DEF Ind, Typed, RegisterInsert
<1>2. Becomes(r, Idle) /\ Idle.at <= clock
  BY <1>1, Finished, IdleRequest, ClockIs DEF RegisterInsert
<1>3. Sound(r)'
  BY <1>2, Quiet, IdleRequest DEF Becomes
<1>4. KeysHanded' /\ SingleKey' /\ \A q \in Requests : Sound(q)'
  BY <1>2, <1>3, OneRequest DEF RegisterInsert
<1>5. Typed' /\ Limiter'
  BY <1>1, <1>2, StampsKept, LimiterKept DEF RegisterInsert, limiter
<1> DEFINE row == [email |-> req[r].email, password |-> req[r].password,
                   active |-> TRUE, admin |-> req[r].admin]
<1>6. row \in UserRow /\ row.email = req[r].email
  BY <1>1 DEF Sound, Request, UserRow, Hashes
<1>7. \/ users' = users
      \/ users' = [users EXCEPT ![u] = row] /\ get_by_email(req[r].email) = {}
  BY DEF RegisterInsert
<1> HIDE DEF row
<1>8. Stores' /\ Unique'
  <2>1. UNCHANGED <<profile, clock, keys, tokens, issued, errands, contested>>
    BY DEF RegisterInsert
  <2>2. CASE users' = users
    BY <1>1, <2>1, <2>2 DEF Stores, Unique
  <2>3. CASE users' = [users EXCEPT ![u] = row] /\ get_by_email(req[r].email) = {}
    <3>1. users' \in [UserIds -> UserRow \cup {NoUser}]
      BY <1>1, <1>6, <2>3 DEF Stores
    <3>2. \A v \in UserIds : users'[v] = IF v = u THEN row ELSE users[v]
      BY <1>1, <2>3 DEF Stores
    <3>3. \A v \in UserIds : users[v] # NoUser => users[v].email # row.email
      BY <1>6, <2>3 DEF get_by_email
    <3> QED
      BY <1>1, <2>1, <3>1, <3>2, <3>3 DEF Stores, Unique
  <2> QED
    BY <1>7, <2>2, <2>3
<1> QED
  BY <1>4, <1>5, <1>8 DEF Ind

LEMMA LoginReadKeeps ==
    ASSUME Ind, NEW r \in Requests, NEW u \in UserIds, NEW p \in Passwords, LoginRead(r, u, p)
    PROVE  Ind'
<1>1. Stores /\ Typed
  BY DEF Ind
<1> DEFINE h == [Idle EXCEPT !.pc = "keys", !.user = u]
<1>2. h \in Request /\ h.pc = "keys" /\ h.user = u /\ h.at = 0
  BY IdleRequest DEF Request, ReqPCs
<1>3. req' = [req EXCEPT ![r] = h]
  BY DEF LoginRead
<1> HIDE DEF h
<1>4. Becomes(r, h)
  BY <1>1, <1>2, <1>3, Put
<1>5. h.at <= clock
  BY <1>1, <1>2, ClockIs
<1>6. Sound(r)'
  BY <1>2, <1>4 DEF Becomes, Sound, ReadPCs, CheckedPCs
<1> QED
  BY <1>1, <1>4, <1>5, <1>6, RequestOnly DEF LoginRead, limiter, Stores

LEMMA LoginKeysKeeps ==
    ASSUME Ind, NEW r \in Requests, LoginKeys(r)
    PROVE  Ind'
<1>1. /\ Stores /\ Typed /\ Sound(r) /\ req[r] \in Request /\ req[r].pc = "keys"
      /\ req[r].at <= clock /\ req[r].user \in UserIds
  BY DEF Ind, Typed, LoginKeys, Sound
<1>2. UNCHANGED <<profile, clock, tables, zset, admitted, expiry, errands, contested>>
  BY DEF LoginKeys, limiter
<1>3. CASE LiveKeys(req[r].user) = {} /\ req' = [req EXCEPT ![r].pc = "create"]
  <2> DEFINE h == [req[r] EXCEPT !.pc = "create"]
  <2>1. h \in Request /\ h.pc = "create" /\ h.user = req[r].user /\ h.at = req[r].at
    BY <1>1 DEF Request, ReqPCs
  <2>2. req' = [req EXCEPT ![r] = h]
    BY <1>3
  <2> HIDE DEF h
  <2>3. Becomes(r, h)
    BY <1>1, <2>1, <2>2, Put
  <2>4. \A k \in KeyIds : ~Live(k, req[r].user)
    BY <1>3 DEF LiveKeys, Live
  <2>5. Sound(r)'
    BY <1>1, <1>2, <2>1, <2>3, <2>4 DEF Becomes, Sound, ReadPCs, CheckedPCs, Live, tables
  <2> QED
    BY <1>1, <1>2, <2>1, <2>3, <2>5, RequestOnly DEF Stores
<1>4. ASSUME NEW k \in LiveKeys(req[r].user), req' = [req EXCEPT ![r].pc = "rotate", ![r].key = k]
      PROVE  Ind'
  <2>1. k \in KeyIds /\ keys[k] # NoKey /\ keys[k].user = req[r].user
    BY DEF LiveKeys
  <2> DEFINE h == [req[r] EXCEPT !.pc = "rotate", !.key = k]
  <2>2. h \in Request /\ h.pc = "rotate" /\ h.user = req[r].user /\ h.at = req[r].at /\ h.key = k
    BY <1>1, <2>1 DEF Request, ReqPCs
  <2>3. req' = [req EXCEPT ![r] = h]
    BY <1>1, <1>4 DEF Typed
  <2> HIDE DEF h
  <2>4. Becomes(r, h)
    BY <1>1, <2>2, <2>3, Put
  <2>5. Sound(r)'
    BY <1>1, <1>2, <2>1, <2>2, <2>4 DEF Becomes, Sound, ReadPCs, CheckedPCs, tables
  <2> QED
    BY <1>1, <1>2, <2>2, <2>4, <2>5, RequestOnly DEF Stores
<1>5. CASE Finish(r)
  BY <1>2, <1>5, Ends
<1> QED
  BY <1>3, <1>4, <1>5 DEF LoginKeys

LEMMA KeyRowReal == NoKey \notin KeyRow
BY GatewayAssumption DEF KeyRow, hash_api_secret

\* A further secret is handed out; none is forgotten.
LEMMA Issued ==
    ASSUME Stores, NEW k \in KeyIds, NEW u \in UserIds, Fresh <= MaxSecrets,
           issued' = Append(issued, [key |-> k, user |-> u])
    PROVE  /\ issued' \in Seq([key : KeyIds, user : UserIds]) /\ Len(issued') <= MaxSecrets
           /\ Fresh \in 1 .. MaxSecrets
           /\ \A secret, l, v : Handed(issued, secret, l, v) => Handed(issued', secret, l, v)
           /\ Handed(issued', hash_api_secret(Fresh), k, u)
<1> DEFINE Row == [key : KeyIds, user : UserIds]
           row == [key |-> k, user |-> u]
<1>1. issued \in Seq(Row) /\ row \in Row /\ Len(issued) \in Nat /\ MaxSecrets \in Nat
  BY GatewayAssumption DEF Stores
<1>2. issued' = Append(issued, row)
  OBVIOUS
<1>3. Fresh = Len(issued) + 1 /\ Fresh <= MaxSecrets
  BY DEF Fresh
<1> HIDE DEF Row
<1>4. /\ issued' \in Seq(Row) /\ Len(issued') = Len(issued) + 1
      /\ \A s \in DOMAIN issued : s \in DOMAIN issued' /\ issued'[s] = issued[s]
      /\ Len(issued) + 1 \in DOMAIN issued' /\ issued'[Len(issued) + 1] = row
  <2> HIDE DEF row
  <2> QED
    BY <1>1, <1>2
<1>5. \A secret, l, v : Handed(issued, secret, l, v) => Handed(issued', secret, l, v)
  BY <1>4 DEF Handed
<1>6. Handed(issued', hash_api_secret(Fresh), k, u)
  <2>1. Handed(issued', hash_api_secret(Len(issued) + 1), k, u)
    BY <1>4 DEF Handed
  <2> QED
    BY <1>3, <2>1
<1> QED
  BY <1>1, <1>3, <1>4, <1>5, <1>6 DEF Row

LEMMA KeyMade ==
    ASSUME Ind, NEW k \in KeyIds, NEW u \in UserIds, NEW perms \in SUBSET Permissions,
           NewKey(k, u, perms)
    PROVE  /\ keys' \in [KeyIds -> KeyRow \cup {NoKey}] /\ keys[k] = NoKey
           /\ \A l \in KeyIds : l # k => keys'[l] = keys[l]
           /\ keys'[k].user = u
           /\ issued' \in Seq([key : KeyIds, user : UserIds]) /\ Len(issued') <= MaxSecrets
           /\ \A secret, l, v : Handed(issued, secret, l, v) => Handed(issued', secret, l, v)
           /\ KeysHanded'
<1>1. Stores /\ KeysHanded
  BY DEF Ind
<1>2. /\ issued' \in Seq([key : KeyIds, user : UserIds]) /\ Len(issued') <= MaxSecrets
      /\ Fresh \in 1 .. MaxSecrets
      /\ \A secret, l, v : Handed(issued, secret, l, v) => Handed(issued', secret, l, v)
      /\ Handed(issued', hash_api_secret(Fresh), k, u)
  BY <1>1, Issued DEF NewKey
<1> DEFINE row == [user |-> u, secret |-> hash_api_secret(Fresh), revoked |-> FALSE, perms |-> perms]
<1>3. row \in KeyRow /\ row.user = u /\ row.secret = hash_api_secret(Fresh)
  BY <1>2 DEF KeyRow
<1>4. keys' = [keys EXCEPT ![k] = row] /\ keys[k] = NoKey
  BY DEF NewKey, NextKey
<1> HIDE DEF row
<1>5. /\ keys' \in [KeyIds -> KeyRow \cup {NoKey}] /\ keys'[k] = row
      /\ \A l \in KeyIds : l # k => keys'[l] = keys[l]
  BY <1>1, <1>3, <1>4 DEF Stores
<1>6. KeysHanded'
  BY <1>1, <1>2, <1>3, <1>5 DEF KeysHanded
<1> QED
  BY <1>2, <1>3, <1>4, <1>5, <1>6

\* A new key of a user: the other requests know what they knew.
LEMMA NewKeyKeeps ==
    ASSUME Ind, NEW r \in Requests, NEW k \in KeyIds, NEW u \in UserIds, NEW perms \in SUBSET Permissions,
           NewKey(k, u, perms), Finish(r),
           UNCHANGED <<profile, clock, users, tokens, limiter, errands>>,
           contested' \in SUBSET UserIds, contested \subseteq contested',
           u \notin contested' => /\ \A l \in KeyIds : ~Live(l, u)
                                  /\ \A q \in Requests \ {r} : req[q].pc = "create" => req[q].user # u
    PROVE  Ind'
<1>1. Stores /\ Limiter /\ Typed /\ Unique /\ SingleKey /\ \A q \in Requests : Sound(q)
  BY DEF Ind
<1>2. /\ keys' \in [KeyIds -> KeyRow \cup {NoKey}] /\ keys[k] = NoKey
      /\ \A l \in KeyIds : l # k => keys'[l] = keys[l]
      /\ keys'[k].user = u
      /\ issued' \in Seq([key : KeyIds, user : UserIds]) /\ Len(issued') <= MaxSecrets
      /\ \A secret, l, v : Handed(issued, secret, l, v) => Handed(issued', secret, l, v)
      /\ KeysHanded'
  BY KeyMade
<1>3. Becomes(r, Idle) /\ Idle.at <= clock
  BY <1>1, Finished, IdleRequest, ClockIs
<1>4. Stores' /\ Unique' /\ Limiter' /\ Typed'
  <2>1. Limiter' /\ Typed' /\ Unique'
    BY <1>1, <1>3, LimiterKept, StampsKept DEF limiter, Unique
  <2>2. Stores'
    BY <1>1, <1>2 DEF Stores
  <2> QED
    BY <2>1, <2>2
<1>5. \A v \in UserIds, l \in KeyIds : v # u => (Live(l, v)' <=> Live(l, v))
  BY <1>2 DEF Live
<1>6. SingleKey'
  <2> SUFFICES ASSUME NEW v \in UserIds, v \notin contested', NEW l \in KeyIds, NEW m \in KeyIds,
                      Live(l, v)', Live(m, v)'
               PROVE  l = m
    BY DEF SingleKey
  <2>1. CASE v # u
    BY <1>1, <1>5, <2>1 DEF SingleKey
  <2>2. CASE v = u
    BY <1>2, <2>2 DEF Live
  <2> QED
    BY <2>1, <2>2
<1>7. ASSUME NEW q \in Requests
      PROVE  Sound(q)'
  <2>1. CASE q = r
    BY <1>3, <2>1, Quiet, IdleRequest DEF Becomes
  <2>2. CASE q # r
    <3>1. req'[q] = req[q] /\ Sound(q)
      BY <1>1, <1>3, <2>2 DEF Becomes
    <3>2. req[q].pc \in ReadPCs => RowKnown(q)'
      <4> SUFFICES ASSUME req[q].pc \in ReadPCs
                   PROVE  RowKnown(q)'
        OBVIOUS
      <4>1. RowKnown(q) /\ req[q].key \in KeyIds
        BY <3>1 DEF Sound
      <4>2. keys'[req[q].key] = keys[req[q].key]
        BY <1>2, <4>1 DEF RowKnown
      <4> QED
        BY <1>2, <3>1, <4>1, <4>2 DEF RowKnown
    <3>3. req[q].pc = "create" /\ req[q].user \notin contested' => \A l \in KeyIds : ~Live(l, req[q].user)'
      BY <1>5, <2>2, <3>1 DEF Sound
    <3>4. req[q].pc = "rotate" => keys'[req[q].key] = keys[req[q].key]
      BY <1>2, <3>1 DEF Sound
    <3> QED
      BY <3>1, <3>2, <3>3, <3>4 DEF Sound
  <2> QED
    BY <2>1, <2>2
<1> QED
  BY <1>2, <1>4, <1>6, <1>7 DEF Ind

LEMMA LoginCreateKeeps ==
    ASSUME Ind, NEW r \in Requests, NEW k \in KeyIds, LoginCreate(r, k)
    PROVE  Ind'
<1>1. Stores /\ Sound(r) /\ req[r].pc = "create" /\ req[r].user \in UserIds
  BY DEF Ind, LoginCreate, Sound
<1> DEFINE u == req[r].user
<1>2. /\ contested' \in SUBSET UserIds /\ contested \subseteq contested'
      /\ u \notin contested' => /\ \A l \in KeyIds : ~Live(l, u)
                                /\ \A q \in Requests \ {r} : req[q].pc = "create" => req[q].user # u
  BY <1>1 DEF LoginCreate, Stores, Sound
<1>3. /\ NewKey(k, u, Permissions) /\ Finish(r)
      /\ UNCHANGED <<profile, clock, users, tokens, limiter, errands>>
  BY DEF LoginCreate
<1>4. u \in UserIds /\ Permissions \in SUBSET Permissions
  BY <1>1
<1> HIDE DEF u
<1> QED
  BY <1>2, <1>3, <1>4, NewKeyKeeps

LEMMA Create_api_keyKeeps ==
    ASSUME Ind, NEW r \in Requests, NEW k \in KeyIds, NEW u \in UserIds, NEW perms \in Granted,
           create_api_key(r, k, u, perms)
    PROVE  Ind'
<1> DEFINE granted == IF perms = {} THEN Permissions ELSE perms
<1>1. granted \in SUBSET Permissions
  BY GatewayAssumption
<1>2. /\ NewKey(k, u, granted) /\ Finish(r)
      /\ UNCHANGED <<profile, clock, users, tokens, limiter, errands>>
      /\ contested' = contested \cup {u}
  BY DEF create_api_key
<1> HIDE DEF granted
<1>3. contested' \in SUBSET UserIds
  BY <1>2 DEF Ind, Stores
<1> QED
  BY <1>1, <1>2, <1>3, NewKeyKeeps

\* A key's row changes in its secret or its revocation, and the requests that
\* have read it are marked as overtaken.
LEMMA KeyChangeKeeps ==
    ASSUME Ind, NEW r \in Requests, NEW k \in KeyIds, keys[k] # NoKey, NEW row \in KeyRow,
           row.user = keys[k].user, row.perms = keys[k].perms, keys[k].revoked => row.revoked,
           keys' = [keys EXCEPT ![k] = row], FinishOvertaking(r, k),
           issued' \in Seq([key : KeyIds, user : UserIds]), Len(issued') <= MaxSecrets,
           \A secret, l, v : Handed(issued, secret, l, v) => Handed(issued', secret, l, v),
           Handed(issued', row.secret, k, row.user),
           UNCHANGED <<profile, clock, users, tokens, limiter, errands, contested>>
    PROVE  Ind'
<1>1. Stores /\ Limiter /\ Typed /\ Unique /\ SingleKey /\ KeysHanded /\ \A q \in Requests : Sound(q)
  BY DEF Ind
<1>2. /\ keys' \in [KeyIds -> KeyRow \cup {NoKey}] /\ keys'[k] = row
      /\ \A l \in KeyIds : l # k => keys'[l] = keys[l]
  BY <1>1 DEF Stores
<1>3. /\ req' \in [Requests -> Request] /\ req'[r] = Idle
      /\ \A q \in Requests : q # r => /\ req'[q] = [req[q] EXCEPT !.late = @ \/ q \in Holding(k)]
  <2>1. \A q \in Requests : [req[q] EXCEPT !.late = @ \/ q \in Holding(k)] \in Request
    <3> SUFFICES ASSUME NEW q \in Requests
                 PROVE  [req[q] EXCEPT !.late = @ \/ q \in Holding(k)] \in Request
      OBVIOUS
    <3> DEFINE b == req[q].late \/ q \in Holding(k)
    <3>1. b \in BOOLEAN /\ req[q] \in Request
      BY <1>1 DEF Typed
    <3> HIDE DEF b
    <3>2. [req[q] EXCEPT !.late = b] \in Request
      BY <3>1 DEF Request
    <3> QED
      BY <3>2 DEF b
  <2> QED
    BY <2>1, IdleRequest DEF FinishOvertaking
<1>4. \A q \in Requests : q # r =>
        /\ req'[q].pc = req[q].pc /\ req'[q].user = req[q].user /\ req'[q].password = req[q].password
        /\ req'[q].key = req[q].key /\ req'[q].sig = req[q].sig /\ req'[q].ts = req[q].ts
        /\ req'[q].need = req[q].need /\ req'[q].row = req[q].row /\ req'[q].at = req[q].at
        /\ req[q].late => req'[q].late
        /\ q \in Holding(k) => req'[q].late
  BY <1>1, <1>3 DEF Typed, Request
<1>5. Stores' /\ Limiter' /\ Unique'
  <2>1. Limiter' /\ Unique'
    BY <1>1, LimiterKept DEF limiter, Unique
  <2>2. Stores'
    BY <1>1, <1>2 DEF Stores
  <2> QED
    BY <2>1, <2>2
<1>6. Typed'
  BY <1>1, <1>3, <1>4, IdleRequest, ClockIs DEF Typed
<1>7. KeysHanded'
  BY <1>1, <1>2 DEF KeysHanded
<1>8. \A v \in UserIds, l \in KeyIds : Live(l, v)' => Live(l, v)
  BY <1>2 DEF Live
<1>9. SingleKey'
  BY <1>1, <1>8 DEF SingleKey
<1>10. ASSUME NEW q \in Requests
       PROVE  Sound(q)'
  <2>1. CASE q = r
    BY <1>3, <2>1, Quiet, IdleRequest
  <2>2. CASE q # r
    <3>1. Sound(q)
      BY <1>1
    <3>2. req[q].pc \in ReadPCs => RowKnown(q)'
      <4> SUFFICES ASSUME req[q].pc \in ReadPCs
                   PROVE  RowKnown(q)'
        OBVIOUS
      <4>1. RowKnown(q) /\ req[q].key \in KeyIds
        BY <3>1 DEF Sound
      <4>2. CASE req[q].key # k
        BY <1>2, <1>4, <2>2, <4>1, <4>2 DEF RowKnown
      <4>3. CASE req[q].key = k
        <5>1. q \in Holding(k)
          BY <4>1, <4>3, KeyRowReal DEF Holding, RowKnown
        <5>2. keys'[k] # NoKey
          BY <1>2, KeyRowReal
        <5> QED
          BY <1>2, <1>4, <2>2, <4>1, <4>3, <5>1, <5>2 DEF RowKnown
      <4> QED
        BY <4>2, <4>3
    <3>3. req[q].pc = "create" /\ req[q].user \notin contested' => \A l \in KeyIds : ~Live(l, req[q].user)'
      BY <1>4, <1>8, <2>2, <3>1 DEF Sound
    <3>4. req[q].pc = "rotate" => keys'[req[q].key] # NoKey /\ keys'[req[q].key].user = req[q].user
      BY <1>2, <3>1, KeyRowReal DEF Sound
    <3>5. /\ req'[q].pc = req[q].pc /\ req'[q].user = req[q].user /\ req'[q].password = req[q].password
          /\ req'[q].key = req[q].key /\ req'[q].sig = req[q].sig /\ req'[q].ts = req[q].ts
          /\ req'[q].need = req[q].need /\ req'[q].row = req[q].row /\ req'[q].at = req[q].at
      BY <1>4, <2>2
    <3> QED
      BY <3>1, <3>2, <3>3, <3>4, <3>5 DEF Sound
  <2> QED
    BY <2>1, <2>2
<1> QED
  BY <1>5, <1>6, <1>7, <1>9, <1>10 DEF Ind

LEMMA LoginRotateKeeps ==
    ASSUME Ind, NEW r \in Requests, LoginRotate(r)
    PROVE  Ind'
<1> DEFINE k == req[r].key
           u == req[r].user
<1>1. Stores /\ k \in KeyIds /\ u \in UserIds /\ keys[k] # NoKey /\ keys[k].user = u
  BY DEF Ind, Sound, LoginRotate
<1>2. /\ issued' = Append(issued, [key |-> k, user |-> u]) /\ Fresh <= MaxSecrets
      /\ keys' = [keys EXCEPT ![k].secret = hash_api_secret(Fresh)]
      /\ FinishOvertaking(r, k)
      /\ UNCHANGED <<profile, clock, users, tokens, limiter, errands, contested>>
  BY DEF LoginRotate
<1> HIDE DEF k, u
<1>3. /\ issued' \in Seq([key : KeyIds, user : UserIds]) /\ Len(issued') <= MaxSecrets
      /\ Fresh \in 1 .. MaxSecrets
      /\ \A secret, l, v : Handed(issued, secret, l, v) => Handed(issued', secret, l, v)
      /\ Handed(issued', hash_api_secret(Fresh), k, u)
  BY <1>1, <1>2, Issued
<1> DEFINE row == [keys[k] EXCEPT !.secret = hash_api_secret(Fresh)]
<1>4. keys[k] \in KeyRow
  BY <1>1 DEF Stores
<1>5. /\ row \in KeyRow /\ row.user = keys[k].user /\ row.perms = keys[k].perms
      /\ row.revoked = keys[k].revoked /\ row.secret = hash_api_secret(Fresh)
  BY <1>3, <1>4 DEF KeyRow
<1>6. keys' = [keys EXCEPT ![k] = row]
  BY <1>2
<1> HIDE DEF row
<1>7. Handed(issued', row.secret, k, row.user)
  BY <1>1, <1>3, <1>5
<1> QED
  BY <1>1, <1>2, <1>3, <1>5, <1>6, <1>7, KeyChangeKeeps

LEMMA Revoke_api_keyKeeps ==
    ASSUME Ind, NEW r \in Requests, NEW k \in KeyIds, revoke_api_key(r, k)
    PROVE  Ind'
<1>1. Stores /\ KeysHanded /\ keys[k] # NoKey
  BY DEF Ind, revoke_api_key
<1> DEFINE row == [keys[k] EXCEPT !.revoked = TRUE]
<1>2. keys[k] \in KeyRow
  BY <1>1 DEF Stores
<1>3. /\ row \in KeyRow /\ row.user = keys[k].user /\ row.perms = keys[k].perms
      /\ row.revoked /\ row.secret = keys[k].secret
  BY <1>2 DEF KeyRow
<1>4. keys' = [keys EXCEPT ![k] = row]
  BY DEF revoke_api_key
<1> HIDE DEF row
<1>5. /\ FinishOvertaking(r, k) /\ issued' = issued
      /\ UNCHANGED <<profile, clock, users, tokens, limiter, errands, contested>>
  BY DEF revoke_api_key
<1>6. /\ issued' \in Seq([key : KeyIds, user : UserIds]) /\ Len(issued') <= MaxSecrets
      /\ \A secret, l, v : Handed(issued, secret, l, v) => Handed(issued', secret, l, v)
  BY <1>1, <1>5 DEF Stores, Handed
<1>7. Handed(issued', row.secret, k, row.user)
  BY <1>1, <1>3, <1>6 DEF KeysHanded
<1> QED
  BY <1>1, <1>3, <1>4, <1>5, <1>6, <1>7, KeyChangeKeeps

-----------------------------------------------------------------------------
(* Administration.                                                         *)

LEMMA AdminLoginKeeps ==
    ASSUME Ind, NEW u \in UserIds, NEW p \in Passwords, AdminLogin(u, p)
    PROVE  Ind'
<1>1. UNCHANGED <<profile, clock, users, keys, issued, limiter, req, errands, contested>>
  BY DEF AdminLogin
<1>2. Stores'
  <2>1. Stores /\ clock + Session \in Nat
    BY ClockIs, GatewayAssumption DEF Ind
  <2>2. \A t \in tokens' : t.user \in UserIds /\ t.exp \in Nat
    BY <2>1 DEF AdminLogin, Stores, create_jwt_token
  <2> QED
    BY <1>1, <2>1, <2>2 DEF Stores
<1>3. Limiter' /\ Typed' /\ Unique' /\ KeysHanded' /\ SingleKey'
  BY <1>1, LimiterKept DEF Ind, limiter, Typed, Unique, KeysHanded, SingleKey, Live
<1>4. \A q \in Requests : Sound(q)'
  BY <1>1 DEF Ind, Sound, RowKnown, Live
<1> QED
  BY <1>2, <1>3, <1>4 DEF Ind

LEMMA AdminAuthenticateKeeps ==
    ASSUME Ind, NEW r \in Requests, NEW token \in tokens, AdminAuthenticate(r, token)
    PROVE  Ind'
<1>1. Stores /\ Typed
  BY DEF Ind
<1> DEFINE h == [Idle EXCEPT !.pc = "admin"]
<1>2. h \in Request /\ h.pc = "admin" /\ h.at = 0
  BY IdleRequest DEF Request, ReqPCs
<1>3. req' = [req EXCEPT ![r] = h]
  BY DEF AdminAuthenticate
<1> HIDE DEF h
<1>4. Becomes(r, h)
  BY <1>1, <1>2, <1>3, Put
<1>5. h.at <= clock
  BY <1>1, <1>2, ClockIs
<1>6. Sound(r)'
  BY <1>2, <1>4, Quiet DEF Becomes
<1>7. errands' \in 0 .. Errands
  <2>1. errands < Errands /\ errands' = errands + 1
    BY DEF AdminAuthenticate
  <2>2. errands \in 0 .. Errands
    BY <1>1 DEF Stores
  <2>3. Errands \in Nat
    BY GatewayAssumption
  <2> QED
    BY ONLY <2>1, <2>2, <2>3
<1> QED
  BY <1>4, <1>5, <1>6, <1>7, RequestOnly DEF AdminAuthenticate, limiter

LEMMA Toggle_user_activeKeeps ==
    ASSUME Ind, NEW r \in Requests, NEW u \in UserIds, NEW active \in BOOLEAN,
           toggle_user_active(r, u, active)
    PROVE  Ind'
<1>1. Stores /\ Typed /\ Unique /\ Limiter
  BY DEF Ind
<1>2. Becomes(r, Idle) /\ Idle.at <= clock
  BY <1>1, Finished, IdleRequest, ClockIs DEF toggle_user_active
<1>3. Sound(r)'
  BY <1>2, Quiet, IdleRequest DEF Becomes
<1>4. KeysHanded' /\ SingleKey' /\ \A q \in Requests : Sound(q)'
  BY <1>2, <1>3, OneRequest DEF toggle_user_active
<1>5. Typed' /\ Limiter'
  BY <1>1, <1>2, StampsKept, LimiterKept DEF toggle_user_active, limiter
<1> DEFINE row == [users[u] EXCEPT !.active = active]
<1>6. users[u] \in UserRow /\ users[u] # NoUser
  BY <1>1 DEF toggle_user_active, Stores
<1>7. row \in UserRow /\ row.email = users[u].email
  BY <1>6 DEF UserRow
<1>8. users' = [users EXCEPT ![u] = row]
  BY DEF toggle_user_active
<1> HIDE DEF row
<1>9. users' \in [UserIds -> UserRow \cup {NoUser}] /\ \A v \in UserIds : users'[v] = IF v = u THEN row ELSE users[v]
  BY <1>1, <1>7, <1>8 DEF Stores
<1>10. Stores'
  BY <1>1, <1>9 DEF Stores, toggle_user_active
<1>11. Unique'
  BY <1>1, <1>6, <1>7, <1>9 DEF Unique
<1> QED
  BY <1>4, <1>5, <1>10, <1>11 DEF Ind

-----------------------------------------------------------------------------
(* Signed requests.                                                        *)

LEMMA CallKeeps ==
    ASSUME Ind, NEW r \in Requests, NEW k \in KeyIds, NEW s \in 1 .. MaxSecrets,
           NEW skew \in profile.skews, Call(r, k, s, skew)
    PROVE  Ind'
<1>1. Stores /\ Typed
  BY DEF Ind
<1> DEFINE t == clock + skew
           sig == compute_signature(hash_api_secret(s), t)
           h == [Idle EXCEPT !.pc = "lookup", !.key = k, !.ts = t, !.sig = sig]
<1>2. t \in Int
  BY <1>1, ClockIs, GatewayAssumption DEF Stores
<1>3. sig \in Signatures
  BY <1>2 DEF Signatures
<1>4. req' = [req EXCEPT ![r] = h]
  BY DEF Call
<1> HIDE DEF t, sig
<1>5. h \in Request /\ h.pc = "lookup" /\ h.key = k /\ h.at = 0
  BY <1>2, <1>3, IdleRequest DEF Request, ReqPCs
<1> HIDE DEF h
<1>6. Becomes(r, h)
  BY <1>1, <1>4, <1>5, Put
<1>7. h.at <= clock
  BY <1>1, <1>5, ClockIs
<1>8. Sound(r)'
  BY <1>5, <1>6 DEF Becomes, Sound, ReadPCs, CheckedPCs
<1> QED
  BY <1>1, <1>6, <1>7, <1>8, RequestOnly DEF Call, limiter, Stores

LEMMA LookupKeeps ==
    ASSUME Ind, NEW r \in Requests, Lookup(r)
    PROVE  Ind'
<1>1. /\ Stores /\ Typed /\ KeysHanded /\ req[r] \in Request /\ req[r].pc = "lookup" /\ req[r].key \in KeyIds
      /\ req[r].at <= clock
  BY DEF Ind, Typed, Lookup, Sound
<1>2. UNCHANGED <<profile, clock, tables, zset, admitted, expiry, errands, contested>>
  BY DEF Lookup, limiter
<1> DEFINE row == keys[req[r].key]
<1>3. CASE Finish(r)
  BY <1>2, <1>3, Ends
<1>4. CASE row # NoKey /\ ~row.revoked /\ req' = [req EXCEPT ![r].pc = "verify", ![r].row = row]
  <2> DEFINE h == [req[r] EXCEPT !.pc = "verify", !.row = row]
  <2>1. row \in KeyRow
    BY <1>1, <1>4 DEF Stores
  <2>2. req' = [req EXCEPT ![r] = h]
    BY <1>1, <1>4 DEF Typed
  <2>3. row.revoked = FALSE /\ row = keys[req[r].key] /\ row # NoKey
    BY <1>4, <2>1 DEF KeyRow
  <2>4. Handed(issued, row.secret, req[r].key, row.user)
    BY <1>1, <1>4 DEF KeysHanded
  <2> HIDE DEF row
  <2>5. h \in Request /\ h.pc = "verify" /\ h.key = req[r].key /\ h.row = row /\ h.at = req[r].at
    BY <1>1, <2>1 DEF Request, ReqPCs, ReadPCs
  <2> HIDE DEF h
  <2>6. Becomes(r, h)
    BY <1>1, <2>2, <2>5, Put
  <2>7. req'[r] = h /\ keys' = keys /\ issued' = issued
    BY <1>2, <2>6 DEF Becomes, tables
  <2>8. RowKnown(r)'
    BY <2>1, <2>3, <2>4, <2>5, <2>7 DEF RowKnown
  <2>9. Sound(r)'
    BY <1>1, <2>5, <2>7, <2>8 DEF Sound, ReadPCs, CheckedPCs
  <2> QED
    BY <1>1, <1>2, <2>5, <2>6, <2>9, RequestOnly DEF Stores
<1> QED
  BY <1>3, <1>4 DEF Lookup

\* A step of a request that has read its row: what it knows stays true.
LEMMA Proceeds ==
    ASSUME Ind, NEW r \in Requests, req[r].pc \in ReadPCs, NEW h \in Request, Becomes(r, h),
           h.pc \in CheckedPCs, h.key = req[r].key, h.row = req[r].row, h.late = req[r].late,
           h.sig = req[r].sig, h.ts = req[r].ts,
           h.sig = compute_signature(h.row.secret, h.ts), h.at - h.ts \in -Replay .. Replay,
           h.pc = "served" => h.need \subseteq h.row.perms,
           UNCHANGED <<keys, issued, contested>>
    PROVE  KeysHanded' /\ SingleKey' /\ \A q \in Requests : Sound(q)'
<1>1. Sound(r) /\ RowKnown(r) /\ req[r].key \in KeyIds
  BY DEF Ind, Sound
<1>2. req'[r] = h
  BY DEF Becomes
<1>3. RowKnown(r)'
  BY <1>1, <1>2 DEF RowKnown
<1>4. Sound(r)'
  BY <1>1, <1>2, <1>3 DEF Sound, CheckedPCs, ReadPCs
<1> QED
  BY <1>4, OneRequest

LEMMA VerifyKeeps ==
    ASSUME Ind, NEW r \in Requests, Verify(r)
    PROVE  Ind'
<1>1. Stores /\ Typed /\ Unique /\ Limiter /\ req[r] \in Request /\ req[r].pc = "verify"
  BY DEF Ind, Typed, Verify
<1>2. UNCHANGED <<profile, clock, tables, zset, admitted, expiry, errands, contested>>
  BY DEF Verify, limiter
<1>3. CASE Finish(r)
  BY <1>2, <1>3, Ends
<1>4. CASE /\ verify_signature(req[r].row.secret, req[r].ts, req[r].sig)
           /\ req' = [req EXCEPT ![r].pc = "count", ![r].at = clock]
  <2> DEFINE h == [req[r] EXCEPT !.pc = "count", !.at = clock]
  <2>1. /\ h \in Request /\ h.pc = "count" /\ h.key = req[r].key /\ h.row = req[r].row
        /\ h.late = req[r].late /\ h.sig = req[r].sig /\ h.ts = req[r].ts /\ h.at = clock
    BY <1>1, ClockIs DEF Request, ReqPCs, ReadPCs
  <2>2. req' = [req EXCEPT ![r] = h]
    BY <1>1, <1>4 DEF Typed
  <2> HIDE DEF h
  <2>3. Becomes(r, h)
    BY <1>1, <2>1, <2>2, Put
  <2>4. h.sig = compute_signature(h.row.secret, h.ts) /\ h.at - h.ts \in -Replay .. Replay
    <3>1. h.ts \in Int /\ clock \in Int /\ Replay \in Int
      BY <1>1, <2>1, ClockIs, GatewayAssumption DEF Request
    <3> QED
      BY <1>4, <2>1, <3>1 DEF verify_signature
  <2>5. KeysHanded' /\ SingleKey' /\ \A q \in Requests : Sound(q)'
    <3>1. req[r].pc \in ReadPCs /\ h.pc \in CheckedPCs /\ h.pc # "served"
      BY <1>1, <2>1 DEF ReadPCs, CheckedPCs
    <3> QED
      BY <1>2, <2>1, <2>3, <2>4, <3>1, Proceeds DEF tables
  <2>6. h.at <= clock
    BY <1>1, <2>1, ClockIs
  <2>7. Typed' /\ Stores' /\ Unique' /\ Limiter'
    BY <1>1, <1>2, <2>3, <2>6, StampsKept, StoresKept, LimiterKept DEF tables, Stores
  <2> QED
    BY <2>5, <2>7 DEF Ind
<1> QED
  BY <1>3, <1>4 DEF Verify

\* A request moves on through the limiter.
LEMMA MovesOn ==
    ASSUME Ind, NEW r \in Requests, req[r].pc \in CheckedPCs, NEW pc \in CheckedPCs \ {"served"},
           req' = [req EXCEPT ![r].pc = pc],
           UNCHANGED <<profile, clock, tables, errands, contested>>
    PROVE  Stores' /\ Unique' /\ Typed' /\ KeysHanded' /\ SingleKey' /\ \A q \in Requests : Sound(q)'
<1>1. Stores /\ Typed /\ Unique /\ req[r] \in Request /\ req[r].at <= clock /\ Sound(r)
  BY DEF Ind, Typed
<1> DEFINE h == [req[r] EXCEPT !.pc = pc]
<1>2. pc \in ReqPCs
  BY DEF CheckedPCs, ReqPCs
<1>3. /\ h \in Request /\ h.pc = pc /\ h.key = req[r].key /\ h.row = req[r].row
      /\ h.late = req[r].late /\ h.sig = req[r].sig /\ h.ts = req[r].ts /\ h.at = req[r].at
  BY <1>1, <1>2 DEF Request
<1>4. req' = [req EXCEPT ![r] = h]
  OBVIOUS
<1> HIDE DEF h
<1>5. Becomes(r, h)
  BY <1>1, <1>3, <1>4, Put
<1>6. KeysHanded' /\ SingleKey' /\ \A q \in Requests : Sound(q)'
  <2>1. h.sig = compute_signature(h.row.secret, h.ts) /\ h.at - h.ts \in -Replay .. Replay
    BY <1>1, <1>3 DEF Sound
  <2>2. req[r].pc \in ReadPCs
    BY DEF CheckedPCs
  <2> QED
    BY <1>3, <1>5, <2>1, <2>2, Proceeds DEF tables
<1>7. Typed' /\ Stores' /\ Unique'
  BY <1>1, <1>3, <1>5, StampsKept, StoresKept DEF tables, Stores
<1> QED
  BY <1>6, <1>7

LEMMA CountKeeps ==
    ASSUME Ind, NEW r \in Requests, Count(r)
    PROVE  Ind'
<1>1. Stores /\ Limiter /\ req[r].pc = "count" /\ req[r].key \in KeyIds
  BY DEF Ind, Count, Sound, ReadPCs
<1>2. PICK pc \in {"add", "oldest"} : req' = [req EXCEPT ![r].pc = pc]
  BY DEF Count
<1>3. Stores' /\ Unique' /\ Typed' /\ KeysHanded' /\ SingleKey' /\ \A q \in Requests : Sound(q)'
  <2>1. pc \in CheckedPCs \ {"served"} /\ req[r].pc \in CheckedPCs
    BY <1>1 DEF CheckedPCs, ReadPCs
  <2> QED
    BY <1>2, <2>1, MovesOn DEF Count
<1>4. Limiter'
  <2> DEFINE k == req[r].key
             e == IF Recent(k, req[r].at) = {} THEN Never ELSE clock + Ttl
  <2>1. e \in Nat \cup {Never}
    BY <1>1, ClockIs, GatewayAssumption DEF Ttl
  <2>2. /\ zset' = [zset EXCEPT ![k] = Recent(k, req[r].at)] /\ expiry' = [expiry EXCEPT ![k] = e]
        /\ UNCHANGED <<clock, admitted>>
    BY DEF Count
  <2>3. Recent(k, req[r].at) \subseteq 0 .. clock
    BY <1>1 DEF Recent, Limiter
  <2> HIDE DEF e, k
  <2> QED
    BY <1>1, <2>1, <2>2, <2>3 DEF Limiter
<1> QED
  BY <1>3, <1>4 DEF Ind

LEMMA AddKeeps ==
    ASSUME Ind, NEW r \in Requests, Add(r)
    PROVE  Ind'
<1>1. Stores /\ Typed /\ Limiter /\ req[r].pc = "add" /\ req[r].key \in KeyIds
  BY DEF Ind, Add, Sound, ReadPCs
<1>2. Stores' /\ Unique' /\ Typed' /\ KeysHanded' /\ SingleKey' /\ \A q \in Requests : Sound(q)'
  <2>1. "permit" \in CheckedPCs \ {"served"} /\ req[r].pc \in CheckedPCs
    BY <1>1 DEF CheckedPCs, ReadPCs
  <2> QED
    BY <2>1, MovesOn DEF Add
<1>3. Limiter'
  <2>1. Stamp(r) \in 0 .. clock
    BY <1>1, ClockIs DEF Stamp, Typed, Request
  <2> QED
    BY <1>1, <2>1 DEF Limiter, Add
<1> QED
  BY <1>2, <1>3 DEF Ind

LEMMA RejectKeeps ==
    ASSUME Ind, NEW r \in Requests, Reject(r)
    PROVE  Ind'
BY Ends DEF Reject

LEMMA PermitKeeps ==
    ASSUME Ind, NEW r \in Requests, NEW need \in Permissions, Permit(r, need)
    PROVE  Ind'
<1>1. /\ Stores /\ Typed /\ Unique /\ Limiter /\ req[r] \in Request /\ req[r].pc = "permit"
      /\ Sound(r) /\ req[r].at <= clock
  BY DEF Ind, Typed, Permit
<1>2. UNCHANGED <<profile, clock, tables, zset, admitted, expiry, errands, contested>>
  BY DEF Permit, limiter
<1>3. CASE Finish(r)
  BY <1>2, <1>3, Ends
<1>4. CASE /\ need \in req[r].row.perms
           /\ req' = [req EXCEPT ![r].pc = "served", ![r].need = {need}]
  <2> DEFINE h == [req[r] EXCEPT !.pc = "served", !.need = {need}]
  <2>1. /\ h \in Request /\ h.pc = "served" /\ h.key = req[r].key /\ h.row = req[r].row /\ h.need = {need}
        /\ h.late = req[r].late /\ h.sig = req[r].sig /\ h.ts = req[r].ts /\ h.at = req[r].at
    BY <1>1 DEF Request, ReqPCs, ReadPCs
  <2>2. req' = [req EXCEPT ![r] = h]
    BY <1>1, <1>4 DEF Typed
  <2> HIDE DEF h
  <2>3. Becomes(r, h)
    BY <1>1, <2>1, <2>2, Put
  <2>4. h.sig = compute_signature(h.row.secret, h.ts) /\ h.at - h.ts \in -Replay .. Replay
    BY <1>1, <2>1 DEF Sound, CheckedPCs, ReadPCs
  <2>5. KeysHanded' /\ SingleKey' /\ \A q \in Requests : Sound(q)'
    <3>1. req[r].pc \in ReadPCs /\ h.pc \in CheckedPCs /\ h.need \subseteq h.row.perms
      BY <1>1, <1>4, <2>1 DEF ReadPCs, CheckedPCs
    <3> QED
      BY <1>2, <2>1, <2>3, <2>4, <3>1, Proceeds DEF tables
  <2>6. Typed' /\ Stores' /\ Unique' /\ Limiter'
    BY <1>1, <1>2, <2>1, <2>3, StampsKept, StoresKept, LimiterKept DEF tables, Stores
  <2> QED
    BY <2>5, <2>6 DEF Ind
<1> QED
  BY <1>3, <1>4 DEF Permit

LEMMA FinishingKeeps ==
    ASSUME Ind, NEW r \in Requests, Respond(r) \/ RequestDies(r)
    PROVE  Ind'
BY Ends DEF Respond, RequestDies, limiter

-----------------------------------------------------------------------------
(* Time, and the whole system.                                             *)

LEMMA ExpireKeeps ==
    ASSUME Ind, NEW k \in KeyIds, Expire(k)
    PROVE  Ind'
<1>1. UNCHANGED <<profile, clock, users, keys, tokens, issued, req, admitted, errands, contested>>
  BY DEF Expire, tables
<1>2. Limiter'
  BY <1>1 DEF Ind, Limiter, Expire
<1>3. Stores' /\ Typed' /\ Unique' /\ KeysHanded' /\ SingleKey'
  BY <1>1 DEF Ind, Stores, Typed, Unique, KeysHanded, SingleKey, Live
<1>4. \A q \in Requests : Sound(q)'
  BY <1>1 DEF Ind, Sound, RowKnown, Live
<1> QED
  BY <1>2, <1>3, <1>4 DEF Ind

LEMMA TickKeeps ==
    ASSUME Ind, Tick
    PROVE  Ind'
<1>1. /\ UNCHANGED <<profile, users, keys, tokens, issued, req, zset, admitted, expiry, errands, contested>>
      /\ clock' = clock + 1 /\ clock < profile.time
  BY DEF Tick, tables, limiter
<1>2. clock \in Nat /\ profile.time \in Nat /\ clock' \in 0 .. profile.time /\ 0 .. clock \subseteq 0 .. clock'
  BY <1>1, ClockIs DEF Ind
<1>3. Limiter'
  BY <1>1, <1>2 DEF Ind, Limiter
<1>4. Stores'
  BY <1>1, <1>2 DEF Ind, Stores
<1>5. Typed'
  <2>1. Typed /\ \A r \in Requests : req[r].at \in Nat
    BY DEF Ind, Typed, Request
  <2> QED
    BY <1>1, <1>2, <2>1 DEF Typed
<1>6. Unique' /\ KeysHanded' /\ SingleKey'
  BY <1>1 DEF Ind, Unique, KeysHanded, SingleKey, Live
<1>7. \A q \in Requests : Sound(q)'
  BY <1>1 DEF Ind, Sound, RowKnown, Live
<1> QED
  BY <1>3, <1>4, <1>5, <1>6, <1>7 DEF Ind

LEMMA InitKeeps == Init => Ind
<1> SUFFICES ASSUME Init
             PROVE  Ind
  OBVIOUS
<1>1. profile \in Profiles /\ profile.time \in Nat /\ clock = 0
  BY GatewayAssumption DEF Init
<1>2. /\ users \in [UserIds -> UserRow \cup {NoUser}]
      /\ \A u \in UserIds : u # 1 => users[u] = NoUser
  <2>1. PICK p \in Passwords :
          users = [u \in UserIds |-> IF u # 1 THEN NoUser
                                     ELSE [email |-> Root, password |-> hash_password(p),
                                           active |-> TRUE, admin |-> TRUE]]
    BY DEF Init
  <2>2. [email |-> Root, password |-> hash_password(p), active |-> TRUE, admin |-> TRUE] \in UserRow
    BY GatewayAssumption DEF UserRow
  <2> QED
    BY <2>1, <2>2
<1> DEFINE first == [user |-> 1, secret |-> hash_api_secret(1), revoked |-> FALSE, perms |-> Permissions]
           entry == [key |-> 1, user |-> 1]
<1>3. /\ first \in KeyRow /\ first.user = 1 /\ first.secret = hash_api_secret(1)
      /\ entry \in [key : KeyIds, user : UserIds] /\ MaxSecrets \in Nat \ {0}
  BY GatewayAssumption DEF KeyRow
<1>4. \/ keys = [k \in KeyIds |-> NoKey] /\ issued = <<>>
      \/ /\ keys = [k \in KeyIds |-> IF k # 1 THEN NoKey ELSE first]
         /\ issued = <<entry>>
  BY DEF Init
<1> HIDE DEF first
<1>5. /\ keys \in [KeyIds -> KeyRow \cup {NoKey}]
      /\ \A k \in KeyIds : keys[k] # NoKey => k = 1 /\ keys[k] = first /\ issued = <<entry>>
  BY <1>3, <1>4
<1>6. issued \in Seq([key : KeyIds, user : UserIds]) /\ Len(issued) <= MaxSecrets
  <2> DEFINE Row == [key : KeyIds, user : UserIds]
  <2> HIDE DEF Row, entry
  <2>1. entry \in Row
    BY <1>3 DEF Row, entry
  <2>2. <<>> \in Seq(Row) /\ Len(<<>>) = 0 /\ <<entry>> \in Seq(Row) /\ Len(<<entry>>) = 1
    BY <2>1
  <2>3. issued \in {<<>>, <<entry>>}
    BY <1>4
  <2>4. 0 <= MaxSecrets /\ 1 <= MaxSecrets
    BY <1>3
  <2>5. issued \in Seq(Row) /\ Len(issued) <= MaxSecrets
    BY <2>2, <2>3, <2>4
  <2> QED
    BY <2>5 DEF Row
<1>7. Stores
  <2>1. clock \in 0 .. profile.time /\ errands \in 0 .. Errands
    BY <1>1, GatewayAssumption DEF Init
  <2>2. tokens = {} /\ contested = {}
    BY DEF Init
  <2> QED
    BY <1>1, <1>2, <1>5, <1>6, <2>1, <2>2 DEF Stores
<1>8. Limiter
  BY <1>1 DEF Init, Limiter
<1>9. Typed /\ \A r \in Requests : Sound(r)
  <2>1. req = [r \in Requests |-> Idle]
    BY DEF Init
  <2> QED
    BY <1>1, <2>1, IdleRequest DEF Typed, Sound, ReadPCs, CheckedPCs
<1>10. Unique
  BY <1>2 DEF Unique
<1>11. KeysHanded
  <2> SUFFICES ASSUME NEW k \in KeyIds, keys[k] # NoKey
               PROVE  Handed(issued, keys[k].secret, k, keys[k].user)
    BY DEF KeysHanded
  <2>1. k = 1 /\ keys[k].secret = hash_api_secret(1) /\ keys[k].user = 1
    BY <1>3, <1>5
  <2>2. 1 \in DOMAIN issued /\ issued[1] = entry
    BY <1>5
  <2> QED
    BY <2>1, <2>2 DEF Handed
<1>12. SingleKey
  BY <1>5 DEF SingleKey, Live
<1> QED
  BY <1>7, <1>8, <1>9, <1>10, <1>11, <1>12 DEF Ind

LEMMA NextKeeps == Ind /\ [Next]_vars => Ind'
<1> SUFFICES ASSUME Ind, [Next]_vars
             PROVE  Ind'
  OBVIOUS
<1>1. CASE UNCHANGED vars
  <2>1. UNCHANGED <<profile, clock, users, keys, tokens, issued, zset, expiry, admitted, req, errands, contested>>
    BY <1>1 DEF vars, tables, limiter
  <2>2. Stores' /\ Limiter' /\ Typed' /\ Unique' /\ KeysHanded' /\ SingleKey'
    BY <2>1 DEF Ind, Stores, Limiter, Typed, Unique, KeysHanded, SingleKey, Live
  <2>3. \A q \in Requests : Sound(q)'
    BY <2>1 DEF Ind, Sound, RowKnown, Live
  <2> QED
    BY <2>2, <2>3 DEF Ind
<1>2. ASSUME NEW r \in Requests, Account(r)
      PROVE  Ind'
  BY <1>2, RegisterReadKeeps, RegisterInsertKeeps, LoginReadKeeps, LoginKeysKeeps, LoginRotateKeeps,
     LoginCreateKeeps DEF Account
<1>3. ASSUME NEW r \in Requests, Admin(r)
      PROVE  Ind'
  BY <1>3, AdminAuthenticateKeeps, Toggle_user_activeKeeps, Create_api_keyKeeps, Revoke_api_keyKeeps
     DEF Admin
<1>4. ASSUME NEW r \in Requests, Signed(r)
      PROVE  Ind'
  BY <1>4, CallKeeps, LookupKeeps, VerifyKeeps, CountKeeps, AddKeeps, RejectKeeps, PermitKeeps,
     FinishingKeeps DEF Signed
<1> QED
  BY <1>1, <1>2, <1>3, <1>4, FinishingKeeps, AdminLoginKeeps, ExpireKeeps, TickKeeps DEF Next

\* Tables, keys and requests stay consistent, for any clients and admins
\* (api/deps.py, api/v1/auth.py, the admin endpoints).
THEOREM GatewayConsistent == Spec => []Ind
BY InitKeeps, NextKeeps, PTL DEF Spec

LEMMA AtMostOne ==
    ASSUME NEW S, \A x, y \in S : x = y
    PROVE  Cardinality(S) <= 1
<1>1. CASE S = {}
  BY <1>1, FS_EmptySet
<1>2. ASSUME NEW x \in S
      PROVE  Cardinality(S) <= 1
  <2>1. S = {x}
    BY <1>2
  <2> QED
    BY <2>1, FS_Singleton
<1> QED
  BY <1>1, <1>2

LEMMA TypesFollow == Ind => TypeOK
<1> SUFFICES ASSUME Ind
             PROVE  TypeOK
  OBVIOUS
<1>1. Stores /\ Limiter /\ Typed
  BY DEF Ind
<1>2. clock \in Nat
  BY <1>1, ClockIs
<1>3. \A r \in Requests : req[r].at \in 0 .. clock
  BY <1>1, <1>2 DEF Typed, Request
<1>4. \A r \in Requests : req[r].pc \in {"count", "add", "oldest"} => req[r].key \in KeyIds
  BY DEF Ind, Sound, ReadPCs
<1>5. \A k \in KeyIds : expiry[k] = Never \/ expiry[k] \in Nat
  BY <1>1 DEF Limiter
<1> QED
  BY <1>1, <1>3, <1>4, <1>5 DEF TypeOK, Stores, Limiter

\* No two accounts have one email, however register and create_user interleave
\* between their look and their insert, for any number of requests; and all
\* state keeps its type.
THEOREM EmailsStayUnique == Spec => []EmailsUnique
<1>1. Ind => EmailsUnique
  <2> SUFFICES ASSUME Ind
               PROVE  EmailsUnique
    OBVIOUS
  <2>1. ASSUME NEW e \in Emails
        PROVE  Cardinality(get_by_email(e)) <= 1
    <3>1. \A u, v \in get_by_email(e) : u = v
      BY DEF Ind, Unique, get_by_email
    <3> QED
      BY <3>1, AtMostOne
  <2> QED
    BY <2>1, TypesFollow DEF EmailsUnique
<1> QED
  BY <1>1, GatewayConsistent, PTL

\* A user has at most one live key, so that scalar_one_or_none of login does not
\* raise, unless first logins overlapped or an admin made a key for the user.
THEOREM OneLiveKeyEach == Spec => []OneLiveKey
<1>1. Ind => OneLiveKey
  <2> SUFFICES ASSUME Ind, NEW u \in UserIds \ contested
               PROVE  Cardinality(LiveKeys(u)) <= 1
    BY DEF OneLiveKey
  <2>1. \A k, l \in LiveKeys(u) : k = l
    BY DEF Ind, SingleKey, Live, LiveKeys
  <2> QED
    BY <2>1, AtMostOne
<1> QED
  BY <1>1, GatewayConsistent, PTL

\* A request is served only for the owner of its key, in time and with the
\* permission, and its row is stale only where the key changed after it was read
\* (authenticate_request, require_permission).
THEOREM ServedAuthentic == Spec => []ServedIsAuthentic
<1>1. Ind => ServedIsAuthentic
  <2> SUFFICES ASSUME Ind, NEW r \in Requests, req[r].pc = "served"
               PROVE  /\ \E s \in DOMAIN issued :
                           /\ req[r].sig = compute_signature(hash_api_secret(s), req[r].ts)
                           /\ issued[s] = [key |-> req[r].key, user |-> req[r].row.user]
                      /\ req[r].at - req[r].ts \in -Replay .. Replay
                      /\ req[r].need \subseteq keys[req[r].key].perms
                      /\ keys[req[r].key].revoked \/ keys[req[r].key].secret # req[r].row.secret
                         => req[r].late
    BY DEF ServedIsAuthentic
  <2>1. /\ RowKnown(r) /\ req[r].sig = compute_signature(req[r].row.secret, req[r].ts)
        /\ req[r].at - req[r].ts \in -Replay .. Replay /\ req[r].need \subseteq req[r].row.perms
    BY DEF Ind, Sound, CheckedPCs, ReadPCs
  <2> QED
    BY <2>1 DEF RowKnown, Handed
<1> QED
  BY <1>1, GatewayConsistent, PTL

-----------------------------------------------------------------------------
(* The rate limiter.                                                       *)

AtLimiter == {"count", "add", "oldest"}

\* Request q is not at the limiter after the step, or just where it was; or it
\* comes to the limiter and has read the clock.
Stays(q) == \/ req'[q].pc \notin AtLimiter
            \/ req'[q].pc = req[q].pc /\ req'[q].key = req[q].key /\ req'[q].at = req[q].at

Arrives(q) == req'[q].pc = "count" /\ req'[q].at = clock

\* A step that has nothing to do with the limiter, except that a request arrives.
Aside ==
    /\ UNCHANGED <<clock, zset, expiry, admitted, promise>>
    /\ \A q \in Requests : Stays(q) \/ Arrives(q)

LEMMA OneLeaves ==
    ASSUME Typed, NEW r \in Requests, NEW h, req' = [req EXCEPT ![r] = h],
           h.pc \notin AtLimiter \/ (h.pc = "count" /\ h.at = clock)
    PROVE  \A q \in Requests : Stays(q) \/ Arrives(q)
<1>1. req'[r] = h /\ \A q \in Requests : q # r => req'[q] = req[q]
  BY DEF Typed
<1> QED
  BY <1>1 DEF Stays, Arrives

LEMMA Leaves ==
    ASSUME Typed, NEW r \in Requests, Finish(r)
    PROVE  \A q \in Requests : Stays(q) \/ Arrives(q)
<1>1. Idle.pc \notin AtLimiter
  BY IdleRequest DEF AtLimiter
<1> QED
  BY <1>1, OneLeaves DEF Finish

LEMMA LeavesOvertaking ==
    ASSUME Typed, NEW r \in Requests, NEW k, FinishOvertaking(r, k)
    PROVE  \A q \in Requests : Stays(q) \/ Arrives(q)
<1>1. Idle.pc \notin AtLimiter
  BY IdleRequest DEF AtLimiter
<1>2. ASSUME NEW q \in Requests
      PROVE  Stays(q)
  <2>1. CASE q = r
    BY <1>1, <2>1 DEF FinishOvertaking, Stays
  <2>2. CASE q # r
    <3>1. PICK g, h, b : g = req[q] /\ h = req'[q] /\ b = (req[q].late \/ q \in Holding(k))
      OBVIOUS
    <3>2. g \in Request /\ h = [g EXCEPT !.late = b]
      BY <2>2, <3>1 DEF FinishOvertaking, Typed
    <3>3. h.pc = g.pc /\ h.key = g.key /\ h.at = g.at
      BY ONLY <3>2 DEF Request
    <3> QED
      BY ONLY <3>1, <3>3 DEF Stays
  <2> QED
    BY <2>1, <2>2
<1> QED
  BY <1>2

\* A request that goes on elsewhere.
LEMMA GoesOn ==
    ASSUME Typed, NEW r \in Requests, NEW pc, pc \notin AtLimiter, req' = [req EXCEPT ![r].pc = pc]
    PROVE  \A q \in Requests : Stays(q) \/ Arrives(q)
<1>1. PICK g, h : g = req[r] /\ h = [g EXCEPT !.pc = pc]
  OBVIOUS
<1>2. g \in Request /\ req' = [req EXCEPT ![r] = h]
  BY <1>1 DEF Typed
<1>3. h.pc = pc
  BY ONLY <1>1, <1>2 DEF Request
<1> QED
  BY <1>2, <1>3, OneLeaves

LEMMA AccountAside ==
    ASSUME Ind, NEW r \in Requests, Account(r)
    PROVE  Aside
<1> USE DEF AtLimiter
<1>0. Typed
  BY DEF Ind
<1>1. ASSUME NEW e \in Emails, NEW p \in Passwords, NEW admin \in BOOLEAN, RegisterRead(r, e, p, admin)
      PROVE  Aside
  <2>1. PICK h : h = [Idle EXCEPT !.pc = "insert", !.email = e, !.admin = admin, !.password = hash_password(p)]
    OBVIOUS
  <2>2. h.pc = "insert" /\ req' = [req EXCEPT ![r] = h]
    BY <1>1, <2>1 DEF RegisterRead, Idle
  <2>3. UNCHANGED <<clock, zset, expiry, admitted, promise>>
    BY <1>1 DEF RegisterRead, limiter
  <2> QED
    BY <1>0, <2>2, <2>3, OneLeaves DEF Aside
<1>2. ASSUME NEW u \in UserIds, RegisterInsert(r, u)
      PROVE  Aside
  BY <1>0, <1>2, Leaves DEF RegisterInsert, limiter, Aside
<1>3. ASSUME NEW u \in UserIds, NEW p \in Passwords, LoginRead(r, u, p)
      PROVE  Aside
  <2>1. PICK h : h = [Idle EXCEPT !.pc = "keys", !.user = u]
    OBVIOUS
  <2>2. h.pc = "keys" /\ req' = [req EXCEPT ![r] = h]
    BY <1>3, <2>1 DEF LoginRead, Idle
  <2>3. UNCHANGED <<clock, zset, expiry, admitted, promise>>
    BY <1>3 DEF LoginRead, limiter
  <2> QED
    BY <1>0, <2>2, <2>3, OneLeaves DEF Aside
<1>4. CASE LoginKeys(r)
  <2>1. UNCHANGED <<clock, zset, expiry, admitted, promise>>
    BY <1>4 DEF LoginKeys, limiter
  <2>2. CASE req' = [req EXCEPT ![r].pc = "create"]
    <3>1. "create" \notin AtLimiter
      OBVIOUS
    <3>2. \A q \in Requests : Stays(q) \/ Arrives(q)
      BY ONLY <1>0, <2>2, <3>1, r \in Requests, GoesOn
    <3> QED
      BY <2>1, <3>2 DEF Aside
  <2>3. ASSUME NEW k, req' = [req EXCEPT ![r].pc = "rotate", ![r].key = k]
        PROVE  Aside
    <3>1. PICK g, h : g = req[r] /\ h = [g EXCEPT !.pc = "rotate", !.key = k]
      OBVIOUS
    <3>2. g \in Request /\ req' = [req EXCEPT ![r] = h]
      BY <1>0, <2>3, <3>1 DEF Typed
    <3>3. h.pc = "rotate"
      BY ONLY <3>1, <3>2 DEF Request
    <3> QED
      BY <1>0, <2>1, <3>2, <3>3, OneLeaves DEF Aside
  <2>4. CASE Finish(r)
    BY <1>0, <2>1, <2>4, Leaves DEF Aside
  <2> QED
    BY <1>4, <2>2, <2>3, <2>4 DEF LoginKeys
<1>5. CASE LoginRotate(r)
  BY <1>0, <1>5, LeavesOvertaking DEF LoginRotate, limiter, Aside
<1>6. ASSUME NEW k \in KeyIds, LoginCreate(r, k)
      PROVE  Aside
  BY <1>0, <1>6, Leaves DEF LoginCreate, limiter, Aside
<1> QED
  BY <1>1, <1>2, <1>3, <1>4, <1>5, <1>6 DEF Account

LEMMA AdminAside ==
    ASSUME Ind, NEW r \in Requests, Admin(r)
    PROVE  Aside
<1> USE DEF AtLimiter
<1>0. Typed
  BY DEF Ind
<1>1. ASSUME NEW token \in tokens, AdminAuthenticate(r, token)
      PROVE  Aside
  <2>1. PICK h : h = [Idle EXCEPT !.pc = "admin"]
    OBVIOUS
  <2>2. h.pc = "admin" /\ req' = [req EXCEPT ![r] = h]
    BY <1>1, <2>1 DEF AdminAuthenticate, Idle
  <2>3. UNCHANGED <<clock, zset, expiry, admitted, promise>>
    BY <1>1 DEF AdminAuthenticate, limiter
  <2> QED
    BY <1>0, <2>2, <2>3, OneLeaves DEF Aside
<1>2. ASSUME NEW u \in UserIds, NEW active \in BOOLEAN, toggle_user_active(r, u, active)
      PROVE  Aside
  BY <1>0, <1>2, Leaves DEF toggle_user_active, limiter, Aside
<1>3. ASSUME NEW k \in KeyIds, NEW u \in UserIds, NEW perms \in Granted, create_api_key(r, k, u, perms)
      PROVE  Aside
  BY <1>0, <1>3, Leaves DEF create_api_key, limiter, Aside
<1>4. ASSUME NEW k \in KeyIds, revoke_api_key(r, k)
      PROVE  Aside
  BY <1>0, <1>4, LeavesOvertaking DEF revoke_api_key, limiter, Aside
<1> QED
  BY <1>1, <1>2, <1>3, <1>4 DEF Admin

\* What a step can do to the limiter.
LEMMA LimiterSteps ==
    ASSUME Ind, [Next]_vars
    PROVE  \/ Aside \/ Tick \/ \E k \in KeyIds : Expire(k)
           \/ \E r \in Requests : Count(r) \/ Add(r) \/ Reject(r)
<1> USE DEF AtLimiter
<1>0. Typed
  BY DEF Ind
<1>1. CASE UNCHANGED vars
  BY <1>1 DEF vars, limiter, Aside, Stays
<1>2. ASSUME NEW u \in UserIds, NEW p \in Passwords, AdminLogin(u, p)
      PROVE  Aside
  BY <1>2 DEF AdminLogin, limiter, Aside, Stays
<1>3. ASSUME NEW r \in Requests, RequestDies(r)
      PROVE  Aside
  BY <1>0, <1>3, Leaves DEF RequestDies, limiter, Aside
<1>4. ASSUME NEW r \in Requests, Signed(r), ~Count(r), ~Add(r), ~Reject(r)
      PROVE  Aside
  <2>1. ASSUME NEW k \in KeyIds, NEW s \in 1 .. MaxSecrets, NEW skew \in profile.skews, Call(r, k, s, skew)
        PROVE  Aside
    <3>1. PICK h : h = [Idle EXCEPT !.pc = "lookup", !.key = k, !.ts = clock + skew,
                                    !.sig = compute_signature(hash_api_secret(s), clock + skew)]
      OBVIOUS
    <3>2. h.pc = "lookup" /\ req' = [req EXCEPT ![r] = h]
      BY <2>1, <3>1 DEF Call, Idle
    <3>3. UNCHANGED <<clock, zset, expiry, admitted, promise>>
      BY <2>1 DEF Call, limiter
    <3> QED
      BY <1>0, <3>2, <3>3, OneLeaves DEF Aside
  <2>2. CASE Lookup(r)
    <3>1. UNCHANGED <<clock, zset, expiry, admitted, promise>>
      BY <2>2 DEF Lookup, limiter
    <3>2. CASE Finish(r)
      BY <1>0, <3>1, <3>2, Leaves DEF Aside
    <3>3. CASE req' = [req EXCEPT ![r].pc = "verify", ![r].row = keys[req[r].key]]
      <4>1. PICK g, h : g = req[r] /\ h = [g EXCEPT !.pc = "verify", !.row = keys[req[r].key]]
        OBVIOUS
      <4>2. g \in Request /\ req' = [req EXCEPT ![r] = h]
        BY <1>0, <3>3, <4>1 DEF Typed
      <4>3. h.pc = "verify"
        BY ONLY <4>1, <4>2 DEF Request
      <4> QED
        BY <1>0, <3>1, <4>2, <4>3, OneLeaves DEF Aside
    <3> QED
      BY <2>2, <3>2, <3>3 DEF Lookup
  <2>3. CASE Verify(r)
    <3>1. UNCHANGED <<clock, zset, expiry, admitted, promise>>
      BY <2>3 DEF Verify, limiter
    <3>2. CASE Finish(r)
      BY <1>0, <3>1, <3>2, Leaves DEF Aside
    <3>3. CASE req' = [req EXCEPT ![r].pc = "count", ![r].at = clock]
      <4>1. PICK g, h : g = req[r] /\ h = [g EXCEPT !.pc = "count", !.at = clock]
        OBVIOUS
      <4>2. g \in Request /\ req' = [req EXCEPT ![r] = h]
        BY <1>0, <3>3, <4>1 DEF Typed
      <4>3. h.pc = "count" /\ h.at = clock
        BY ONLY <4>1, <4>2 DEF Request
      <4> QED
        BY <1>0, <3>1, <4>2, <4>3, OneLeaves DEF Aside
    <3> QED
      BY <2>3, <3>2, <3>3 DEF Verify
  <2>4. CASE Respond(r)
    BY <1>0, <2>4, Leaves DEF Respond, limiter, Aside
  <2>5. ASSUME NEW need \in Permissions, Permit(r, need)
        PROVE  Aside
    <3>1. UNCHANGED <<clock, zset, expiry, admitted, promise>>
      BY <2>5 DEF Permit, limiter
    <3>2. CASE Finish(r)
      BY <1>0, <3>1, <3>2, Leaves DEF Aside
    <3>3. CASE req' = [req EXCEPT ![r].pc = "served", ![r].need = {need}]
      <4>1. PICK g, h : g = req[r] /\ h = [g EXCEPT !.pc = "served", !.need = {need}]
        OBVIOUS
      <4>2. g \in Request /\ req' = [req EXCEPT ![r] = h]
        BY <1>0, <3>3, <4>1 DEF Typed
      <4>3. h.pc = "served"
        BY ONLY <4>1, <4>2 DEF Request
      <4> QED
        BY <1>0, <3>1, <4>2, <4>3, OneLeaves DEF Aside
    <3> QED
      BY <2>5, <3>2, <3>3 DEF Permit
  <2> QED
    BY <1>4, <2>1, <2>2, <2>3, <2>4, <2>5 DEF Signed
<1> QED
  BY <1>1, <1>2, <1>3, <1>4, AccountAside, AdminAside DEF Next

\* The entries that will still be in the window when the client comes back.
Lasting(k, t) == {s \in zset[k] : s > t - Window}

\* A promise was made when the window was just full, and nothing was added since:
\* by then an entry will have left it.
Promises ==
    /\ promise \in [KeyIds -> Int \cup {Never}]
    /\ \A k \in KeyIds : promise[k] # Never => Cardinality(Lasting(k, promise[k])) < Limit

LEMMA EntriesFinite ==
    ASSUME Ind, NEW k \in KeyIds
    PROVE  /\ IsFiniteSet(zset[k]) /\ IsFiniteSet(admitted[k])
           /\ zset[k] \subseteq Nat /\ admitted[k] \subseteq Nat
<1>1. clock \in Nat /\ zset[k] \subseteq 0 .. clock /\ admitted[k] \subseteq 0 .. clock
  BY ClockIs DEF Ind, Limiter
<1>2. IsFiniteSet(0 .. clock)
  BY <1>1, FS_Interval
<1> QED
  BY <1>1, <1>2, FS_Subset

\* Fewer entries, no more of them in the window.
LEMMA FewerLast ==
    ASSUME Ind, Promises, NEW k \in KeyIds, promise[k] # Never, zset'[k] \subseteq zset[k], promise'[k] = promise[k]
    PROVE  Cardinality(Lasting(k, promise[k])') < Limit
<1>1. PICK A, B : A = Lasting(k, promise[k]) /\ B = Lasting(k, promise[k])'
  OBVIOUS
<1>2. B \subseteq A /\ A \subseteq zset[k]
  BY <1>1 DEF Lasting
<1>3. IsFiniteSet(A)
  BY <1>2, EntriesFinite, FS_Subset
<1>4. Cardinality(B) <= Cardinality(A) /\ Cardinality(A) \in Nat /\ Cardinality(B) \in Nat /\ IsFiniteSet(B)
  BY <1>2, <1>3, FS_Subset, FS_CardinalityType
<1>5. Cardinality(A) < Limit /\ Limit \in Nat
  BY <1>1, GatewayAssumption DEF Promises
<1>6. Cardinality(B) < Limit
  BY ONLY <1>4, <1>5
<1> QED
  BY ONLY <1>1, <1>6

\* The waiting time that is announced ends after the oldest entry has left the window.
LEMMA RetryIs ==
    ASSUME Ind, NEW k \in KeyIds, NEW at \in Nat
    PROVE  /\ retry_after(k, at) \in Int
           /\ zset[k] # {} => /\ Min(zset[k]) \in zset[k]
                              /\ at + retry_after(k, at) * Second > Min(zset[k]) + Window
<1>1. Second \in Nat \ {0} /\ Window \in Nat
  BY GatewayAssumption
<1>2. CASE zset[k] = {}
  BY <1>2 DEF retry_after
<1>3. CASE zset[k] # {}
  <2>1. IsFiniteSet(zset[k]) /\ zset[k] \subseteq Nat
    BY EntriesFinite
  <2>2. Min(zset[k]) \in zset[k]
    <3>1. PICK x \in zset[k] : \A y \in zset[k] : x <= y
      BY <1>3, <2>1, LeastNumber
    <3> QED
      BY <3>1 DEF Min
  <2>3. PICK m \in Nat : m = Min(zset[k])
    BY <2>1, <2>2
  <2>4. PICK d \in Int : d = m + Window - at
    BY <1>1
  <2>5. PICK n \in Int : n = d \div Second
    BY <1>1
  <2>6. (n + 1) * Second > d
    BY <1>1, <2>5
  <2>7. PICK w : w = retry_after(k, at)
    OBVIOUS
  <2>8. w = Max({1, n + 1})
    <3>1. w = Max({1, (Min(zset[k]) + Window - at) \div Second + 1})
      BY ONLY <1>3, <2>7 DEF retry_after
    <3> QED
      BY ONLY <2>3, <2>4, <2>5, <3>1
  <2>9. w \in Int /\ w >= n + 1
    BY <2>8, LargerOf
  <2>10. w * Second >= (n + 1) * Second
    BY <1>1, <2>9
  <2>11. at + w * Second > m + Window
    BY <1>1, <2>4, <2>6, <2>9, <2>10
  <2> QED
    BY <2>2, <2>3, <2>7, <2>9, <2>11
<1> QED
  BY <1>2, <1>3

\* No further rejection before the time announced, while the promise stands.
LEMMA PromisesNext ==
    ASSUME Limit > 0, Ind, Ind', Promises, RetryAfterHonest, [Next]_vars
    PROVE  Promises' /\ RetryAfterHonest'
<1> USE DEF AtLimiter
<1>0. /\ Typed /\ Limiter /\ Limit \in Nat /\ promise \in [KeyIds -> Int \cup {Never}] /\ Never \notin Int
      /\ \A r \in Requests : req[r].pc \in AtLimiter => req[r].key \in KeyIds
      /\ \A r \in Requests : req'[r].pc \in AtLimiter => req'[r].key \in KeyIds
  BY GatewayAssumption DEF Ind, Promises, Sound, ReadPCs
\* The requests that are at "oldest" were there before, and no promise changes.
<1>1. ASSUME \A r \in Requests : req'[r].pc = "oldest" =>
                 req[r].pc = "oldest" /\ req'[r].key = req[r].key /\ req'[r].at = req[r].at,
             promise' = promise
      PROVE  RetryAfterHonest'
  BY <1>1 DEF RetryAfterHonest
<1>2. ASSUME \A k \in KeyIds : zset'[k] \subseteq zset[k], promise' = promise
      PROVE  Promises'
  <2>1. ASSUME NEW k \in KeyIds, promise[k] # Never
        PROVE  Cardinality(Lasting(k, promise[k])') < Limit
    BY <1>2, <2>1, FewerLast
  <2> QED
    BY <1>0, <1>2, <2>1 DEF Promises, Lasting
<1>3. CASE Aside
  <2>1. zset' = zset /\ promise' = promise
    BY <1>3 DEF Aside
  <2>2. \A r \in Requests : req'[r].pc = "oldest" =>
            req[r].pc = "oldest" /\ req'[r].key = req[r].key /\ req'[r].at = req[r].at
    BY <1>3 DEF Aside, Stays, Arrives
  <2> QED
    BY <1>1, <1>2, <2>1, <2>2
<1>4. CASE Tick
  <2>1. zset' = zset /\ promise' = promise /\ req' = req
    BY <1>4 DEF Tick, limiter
  <2> QED
    BY <1>1, <1>2, <2>1
<1>5. ASSUME NEW k \in KeyIds, Expire(k)
      PROVE  Promises' /\ RetryAfterHonest'
  <2>1. zset' = [zset EXCEPT ![k] = {}] /\ promise' = promise /\ req' = req
    BY <1>5 DEF Expire
  <2>2. \A l \in KeyIds : zset'[l] \subseteq zset[l]
    BY <1>0, <2>1 DEF Limiter
  <2> QED
    BY <1>1, <1>2, <2>1, <2>2
<1>6. ASSUME NEW r \in Requests, Count(r)
      PROVE  Promises' /\ RetryAfterHonest'
  <2>1. PICK k, at, kept : k = req[r].key /\ at = req[r].at /\ kept = Recent(k, at)
    OBVIOUS
  <2>2. /\ zset' = [zset EXCEPT ![k] = kept] /\ promise' = promise /\ req[r].pc = "count"
        /\ req' = [req EXCEPT ![r].pc = IF Allowed(Cardinality(kept)) THEN "add" ELSE "oldest"]
    BY <1>6, <2>1 DEF Count
  <2>3. k \in KeyIds /\ at \in Nat /\ req[r] \in Request
    BY <1>0, <2>1, <2>2 DEF Typed, Request
  <2>4. kept \subseteq zset[k]
    BY <2>1 DEF Recent
  <2>5. \A l \in KeyIds : zset'[l] \subseteq zset[l]
    BY <1>0, <2>2, <2>3, <2>4 DEF Limiter
  <2>6. Promises'
    BY <1>2, <2>2, <2>5
  <2>7. /\ \A q \in Requests : q # r => req'[q] = req[q]
        /\ req'[r].key = k /\ req'[r].at = at
        /\ req'[r].pc = IF Allowed(Cardinality(kept)) THEN "add" ELSE "oldest"
    BY <1>0, <2>1, <2>2, <2>3 DEF Typed, Request
  <2>8. ASSUME promise[k] # Never, ~(at < promise[k])
        PROVE  Allowed(Cardinality(kept))
    <3>1. PICK t \in Int : t = promise[k]
      BY <1>0, <2>3, <2>8
    <3>2. PICK A : A = Lasting(k, t)
      OBVIOUS
    <3>3. zset[k] \subseteq Nat /\ IsFiniteSet(zset[k])
      BY <2>3, EntriesFinite
    <3>4. Window \in Nat
      BY GatewayAssumption
    <3>5. kept \subseteq A
      BY <2>1, <2>3, <2>8, <3>1, <3>2, <3>3, <3>4 DEF Recent, Lasting
    <3>6. IsFiniteSet(A) /\ Cardinality(A) < Limit
      <4>1. A \subseteq zset[k]
        BY <3>2 DEF Lasting
      <4>2. Cardinality(A) < Limit
        BY <2>3, <2>8, <3>1, <3>2 DEF Promises
      <4> QED
        BY <3>3, <4>1, <4>2, FS_Subset
    <3>7. Cardinality(kept) <= Cardinality(A) /\ Cardinality(A) \in Nat /\ Cardinality(kept) \in Nat
      BY <3>5, <3>6, FS_Subset, FS_CardinalityType
    <3> QED
      BY <1>0, <3>6, <3>7 DEF Allowed
  <2>9. ASSUME NEW q \in Requests, req'[q].pc = "oldest"
        PROVE  promise'[req'[q].key] = Never \/ req'[q].at < promise'[req'[q].key]
    <3>1. CASE q # r
      BY <2>2, <2>7, <2>9, <3>1 DEF RetryAfterHonest
    <3>2. CASE q = r
      BY <2>2, <2>7, <2>8, <2>9, <3>2
    <3> QED
      BY <3>1, <3>2
  <2> QED
    BY <2>6, <2>9 DEF RetryAfterHonest
<1>7. ASSUME NEW r \in Requests, Add(r)
      PROVE  Promises' /\ RetryAfterHonest'
  <2>1. PICK k : k = req[r].key
    OBVIOUS
  <2>2. /\ promise' = [promise EXCEPT ![k] = Never] /\ req' = [req EXCEPT ![r].pc = "permit"] /\ req[r].pc = "add"
        /\ zset' = [zset EXCEPT ![k] = zset[k] \cup {Stamp(r)}]
    BY <1>0, <1>7, <2>1 DEF Add
  <2>3. k \in KeyIds /\ req[r] \in Request
    BY <1>0, <2>1, <2>2 DEF Typed
  <2>4. promise' \in [KeyIds -> Int \cup {Never}] /\ promise'[k] = Never
        /\ \A l \in KeyIds : l # k => promise'[l] = promise[l] /\ zset'[l] = zset[l]
    BY <1>0, <2>2, <2>3 DEF Limiter
  <2>5. ASSUME NEW l \in KeyIds, promise'[l] # Never
        PROVE  Cardinality(Lasting(l, promise[l])') < Limit
    <3>1. promise[l] # Never /\ promise'[l] = promise[l] /\ zset'[l] \subseteq zset[l]
      BY <2>4, <2>5
    <3> QED
      BY <3>1, FewerLast
  <2>6. Promises'
    BY <2>4, <2>5 DEF Promises, Lasting
  <2>7. (\A q \in Requests : q # r => req'[q] = req[q]) /\ req'[r].pc = "permit"
    BY <1>0, <2>2, <2>3 DEF Typed, Request
  <2>8. ASSUME NEW q \in Requests, req'[q].pc = "oldest"
        PROVE  promise'[req'[q].key] = Never \/ req'[q].at < promise'[req'[q].key]
    <3>1. q # r /\ req'[q] = req[q] /\ req[q].key \in KeyIds
      BY <1>0, <2>7, <2>8
    <3>2. promise[req[q].key] = Never \/ req[q].at < promise[req[q].key]
      BY <2>8, <3>1 DEF RetryAfterHonest
    <3> QED
      BY <2>4, <3>1, <3>2
  <2> QED
    BY <2>6, <2>8 DEF RetryAfterHonest
<1>8. ASSUME NEW r \in Requests, Reject(r)
      PROVE  Promises' /\ RetryAfterHonest'
  <2>1. PICK k, at, t, p : /\ k = req[r].key /\ at = req[r].at /\ t = at + retry_after(k, at) * Second
                           /\ p = promise'[k]
    OBVIOUS
  <2>2. /\ req[r].pc = "oldest" /\ Finish(r) /\ zset' = zset
        /\ promise' = [promise EXCEPT ![k] =
             IF (\A q \in Requests \ {r} : req[q].pc \notin {"count", "add", "oldest"})
                /\ Cardinality(zset[k]) <= Limit /\ t <= profile.time THEN t ELSE Never]
    BY <1>8, <2>1 DEF Reject
  <2>3. k \in KeyIds /\ at \in Nat
    BY <1>0, <2>1, <2>2 DEF Typed, Request
  <2>4. /\ p = Never \/ (/\ p = t /\ Cardinality(zset[k]) <= Limit
                         /\ \A q \in Requests \ {r} : req[q].pc \notin {"count", "add", "oldest"})
        /\ \A l \in KeyIds : l # k => promise'[l] = promise[l]
    BY <1>0, <2>1, <2>2, <2>3
  <2>5. t \in Int
    <3>1. retry_after(k, at) \in Int /\ Second \in Nat
      BY <2>3, RetryIs, GatewayAssumption
    <3>2. PICK w \in Int : w = retry_after(k, at)
      BY <3>1
    <3>3. w * Second \in Int
      BY <3>1
    <3> QED
      BY <2>1, <2>3, <3>2, <3>3
  <2>6. promise' \in [KeyIds -> Int \cup {Never}]
    BY <1>0, <2>2, <2>3, <2>5
  <2>7. ASSUME p # Never
        PROVE  Cardinality(Lasting(k, p)) < Limit
    <3>1. p = t /\ Cardinality(zset[k]) <= Limit
      BY <2>4, <2>7
    <3>2. zset[k] \subseteq Nat /\ IsFiniteSet(zset[k]) /\ Window \in Nat
      BY <2>3, EntriesFinite, GatewayAssumption
    <3>3. PICK A : A = Lasting(k, p)
      OBVIOUS
    <3>4. A \subseteq zset[k] /\ IsFiniteSet(A)
      BY <3>2, <3>3, FS_Subset DEF Lasting
    <3>5. CASE zset[k] = {}
      <4>1. A = {}
        BY <3>4, <3>5
      <4> QED
        BY <1>0, <3>3, <4>1, FS_EmptySet
    <3>6. CASE zset[k] # {}
      <4>1. PICK m : m = Min(zset[k]) /\ m \in zset[k] /\ t > m + Window
        BY <2>1, <2>3, <3>6, RetryIs
      <4>2. m \notin A
        BY <2>5, <3>1, <3>2, <3>3, <4>1 DEF Lasting
      <4>3. A \subseteq zset[k] \ {m} /\ IsFiniteSet(zset[k] \ {m})
        BY <3>2, <3>4, <4>2, FS_RemoveElement
      <4>4. Cardinality(A) <= Cardinality(zset[k] \ {m}) /\ Cardinality(A) \in Nat
        BY <3>4, <4>3, FS_Subset, FS_CardinalityType
      <4>5. Cardinality(zset[k] \ {m}) = Cardinality(zset[k]) - 1 /\ Cardinality(zset[k]) \in Nat
        BY <3>2, <4>1, FS_RemoveElement, FS_CardinalityType
      <4>6. Cardinality(A) < Limit
        BY <1>0, <3>1, <4>4, <4>5
      <4> QED
        BY <3>3, <4>6
    <3> QED
      BY <3>5, <3>6
  <2>8. ASSUME NEW l \in KeyIds, promise'[l] # Never
        PROVE  Cardinality(Lasting(l, promise[l])') < Limit
    <3>1. CASE l = k
      BY <2>1, <2>2, <2>7, <2>8, <3>1 DEF Lasting
    <3>2. CASE l # k
      <4>1. promise[l] # Never /\ promise'[l] = promise[l] /\ zset'[l] \subseteq zset[l]
        BY <2>2, <2>4, <2>8, <3>2
      <4> QED
        BY <4>1, FewerLast
    <3> QED
      BY <3>1, <3>2
  <2>9. Promises'
    BY <2>6, <2>8 DEF Promises, Lasting
  <2>10. (\A q \in Requests : q # r => req'[q] = req[q]) /\ req'[r].pc = "idle"
    BY <1>0, <2>2, Finished, IdleRequest DEF Becomes
  <2>11. ASSUME NEW q \in Requests, req'[q].pc = "oldest"
         PROVE  promise'[req'[q].key] = Never \/ req'[q].at < promise'[req'[q].key]
    <3>1. q # r /\ req'[q] = req[q] /\ req[q].pc = "oldest" /\ req[q].key \in KeyIds
      BY <1>0, <2>10, <2>11
    <3>2. promise[req[q].key] = Never \/ req[q].at < promise[req[q].key]
      BY <3>1 DEF RetryAfterHonest
    <3>3. CASE req[q].key = k
      BY <2>1, <2>4, <3>1, <3>3
    <3>4. CASE req[q].key # k
      BY <2>4, <3>1, <3>2, <3>4
    <3> QED
      BY <3>3, <3>4
  <2> QED
    BY <2>9, <2>11 DEF RetryAfterHonest
<1> QED
  BY <1>3, <1>4, <1>5, <1>6, <1>7, <1>8, LimiterSteps

\* A client that comes back when the 429 told it to is not rejected again, if
\* nobody else was at the limiter or admitted meanwhile (check_and_consume), for
\* every limit but nought: a key with no allowance is told to come back in vain.
THEOREM RetryIsHonest ==
    ASSUME Limit > 0
    PROVE  Spec => []RetryAfterHonest
<1>1. Init => Promises /\ RetryAfterHonest
  <2> SUFFICES ASSUME Init
               PROVE  Promises /\ RetryAfterHonest
    OBVIOUS
  <2>1. promise = [k \in KeyIds |-> Never] /\ req = [r \in Requests |-> Idle]
    BY DEF Init
  <2> QED
    BY <2>1, IdleRequest DEF Promises, RetryAfterHonest
<1>2. (Promises /\ RetryAfterHonest) /\ Ind /\ Ind' /\ [Next]_vars => (Promises /\ RetryAfterHonest)'
  BY PromisesNext
<1> QED
  BY <1>1, <1>2, GatewayConsistent, PTL DEF Spec

-----------------------------------------------------------------------------
(* The limiter implements a window limit.                                  *)

InWin(k, u) == {s \in admitted[k] : u - Window < s /\ s <= u}

\* The requests that may still add an entry to a window that is open ...
Adding(k, u) == {q \in Requests : /\ req[q].pc = "add" /\ req[q].key = k
                                  /\ u - Window < req[q].at /\ req[q].at <= u}

\* ... and to one that is over.
Waiting(k, u) == {q \in Requests : /\ req[q].pc \in {"count", "add"} /\ req[q].key = k
                                   /\ u - Window < req[q].at /\ req[q].at <= u}

\* Redis keeps an entry for longer than the window.
Outlived == \A k \in KeyIds : expiry[k] # Never =>
    /\ \A s \in zset[k] : s <= expiry[k] - Ttl
    /\ \A q \in Requests : req[q].pc = "add" /\ req[q].key = k => req[q].at <= expiry[k] - Ttl

\* A window that is not over has all its entries in Redis, and what the last
\* check found there and the requests that have passed it since do not exceed
\* the limit by more than the requests there are.
Open(k, u) ==
    /\ InWin(k, u) \subseteq zset[k]
    /\ Cardinality(InWin(k, u)) + Cardinality(Adding(k, u)) <= Limit + Cardinality(Requests) - 1

\* A window that is over grows only by the requests that were on their way.
Over(k, u) == Cardinality(InWin(k, u)) + Cardinality(Waiting(k, u)) <= Limit + 2 * Cardinality(Requests) - 1

Windows ==
    /\ Outlived
    /\ \A k \in KeyIds, u \in 0 .. MaxTime : IF clock <= u THEN Open(k, u) ELSE Over(k, u)

\* The sets above are finite.
Sized(k, u) ==
    /\ IsFiniteSet(InWin(k, u)) /\ Cardinality(InWin(k, u)) \in Nat
    /\ IsFiniteSet(Adding(k, u)) /\ Cardinality(Adding(k, u)) \in 0 .. Cardinality(Requests)
    /\ IsFiniteSet(Waiting(k, u)) /\ Cardinality(Waiting(k, u)) \in 0 .. Cardinality(Requests)

LEMMA WindowsSized ==
    ASSUME Ind, IsFiniteSet(Requests), NEW k \in KeyIds, NEW u
    PROVE  Sized(k, u)
<1>1. InWin(k, u) \subseteq admitted[k] /\ Adding(k, u) \subseteq Requests /\ Waiting(k, u) \subseteq Requests
  BY DEF InWin, Adding, Waiting
<1>2. IsFiniteSet(admitted[k])
  BY EntriesFinite
<1>3. IsFiniteSet(InWin(k, u)) /\ Cardinality(InWin(k, u)) \in Nat
  BY <1>1, <1>2, FS_Subset, FS_CardinalityType
<1>4. Cardinality(Requests) \in Nat
  BY FS_CardinalityType
<1>5. IsFiniteSet(Adding(k, u)) /\ Cardinality(Adding(k, u)) \in 0 .. Cardinality(Requests)
  BY <1>1, <1>4, FS_Subset, FS_CardinalityType
<1>6. IsFiniteSet(Waiting(k, u)) /\ Cardinality(Waiting(k, u)) \in 0 .. Cardinality(Requests)
  BY <1>1, <1>4, FS_Subset, FS_CardinalityType
<1> QED
  BY <1>3, <1>5, <1>6 DEF Sized

\* A window with the same entries, or with one that a request had announced.
Shrinks(A, B, P, Q) ==
    /\ Cardinality(B) \in Nat /\ Cardinality(Q) \in Nat
    /\ Cardinality(B) + Cardinality(Q) <= Cardinality(A) + Cardinality(P)

LEMMA NothingAdded ==
    ASSUME NEW A, NEW P, NEW Q, IsFiniteSet(A), IsFiniteSet(P), Q \subseteq P
    PROVE  Shrinks(A, A, P, Q)
<1>1. Cardinality(A) \in Nat /\ Cardinality(P) \in Nat /\ Cardinality(Q) \in Nat /\ Cardinality(Q) <= Cardinality(P)
  BY FS_Subset, FS_CardinalityType
<1> QED
  BY <1>1 DEF Shrinks

LEMMA OneAdded ==
    ASSUME NEW A, NEW B, NEW P, NEW Q, NEW s, NEW r, IsFiniteSet(A), IsFiniteSet(P),
           B \subseteq A \cup {s}, r \in P, Q \subseteq P \ {r}
    PROVE  Shrinks(A, B, P, Q)
<1>1. IsFiniteSet(A \cup {s}) /\ IsFiniteSet(P \ {r})
  BY FS_AddElement, FS_RemoveElement
<1>2. Cardinality(A \cup {s}) <= Cardinality(A) + 1 /\ Cardinality(A) \in Nat /\ Cardinality(A \cup {s}) \in Nat
  BY <1>1, FS_AddElement, FS_CardinalityType
<1>3. Cardinality(B) <= Cardinality(A \cup {s}) /\ Cardinality(B) \in Nat
  BY <1>1, FS_Subset, FS_CardinalityType
<1>4. Cardinality(P \ {r}) = Cardinality(P) - 1 /\ Cardinality(P) \in Nat
  BY FS_RemoveElement, FS_CardinalityType
<1>5. Cardinality(Q) <= Cardinality(P \ {r}) /\ Cardinality(Q) \in Nat
  BY <1>1, FS_Subset, FS_CardinalityType
<1>6. PICK a, b, c, p, q, o : /\ a = Cardinality(A) /\ b = Cardinality(B) /\ c = Cardinality(A \cup {s})
                              /\ p = Cardinality(P) /\ q = Cardinality(Q) /\ o = Cardinality(P \ {r})
  OBVIOUS
<1>7. a \in Nat /\ b \in Nat /\ c \in Nat /\ p \in Nat /\ q \in Nat /\ c <= a + 1 /\ b <= c /\ o = p - 1 /\ q <= o
  BY ONLY <1>2, <1>3, <1>4, <1>5, <1>6
<1>8. b + q <= a + p
  BY ONLY <1>7
<1> QED
  BY ONLY <1>6, <1>7, <1>8 DEF Shrinks

\* What keeps the bounds of a window.
LEMMA OpenKept ==
    ASSUME Ind, IsFiniteSet(Requests), NEW k \in KeyIds, NEW u, Open(k, u),
           InWin(k, u)' \subseteq zset'[k], Shrinks(InWin(k, u), InWin(k, u)', Adding(k, u), Adding(k, u)')
    PROVE  Open(k, u)'
<1>1. Sized(k, u)
  BY WindowsSized
<1>2. PICK a, b, p, q, n : /\ a = Cardinality(InWin(k, u)) /\ b = Cardinality(InWin(k, u)')
                           /\ p = Cardinality(Adding(k, u)) /\ q = Cardinality(Adding(k, u)')
                           /\ n = Cardinality(Requests)
  OBVIOUS
<1>3. a \in Nat /\ n \in Nat /\ p \in 0 .. n /\ Limit \in Nat
  BY <1>1, <1>2, FS_CardinalityType, GatewayAssumption DEF Sized
<1>4. a + p <= Limit + n - 1 /\ b + q <= a + p /\ b \in Nat /\ q \in Nat
  BY <1>2 DEF Open, Shrinks
<1>5. b + q <= Limit + n - 1
  BY ONLY <1>3, <1>4
<1> QED
  BY <1>2, <1>5 DEF Open

LEMMA OverKept ==
    ASSUME Ind, IsFiniteSet(Requests), NEW k \in KeyIds, NEW u, Over(k, u),
           Shrinks(InWin(k, u), InWin(k, u)', Waiting(k, u), Waiting(k, u)')
    PROVE  Over(k, u)'
<1>1. Sized(k, u)
  BY WindowsSized
<1>2. PICK a, b, p, q, n : /\ a = Cardinality(InWin(k, u)) /\ b = Cardinality(InWin(k, u)')
                           /\ p = Cardinality(Waiting(k, u)) /\ q = Cardinality(Waiting(k, u)')
                           /\ n = Cardinality(Requests)
  OBVIOUS
<1>3. a \in Nat /\ n \in Nat /\ p \in 0 .. n /\ Limit \in Nat
  BY <1>1, <1>2, FS_CardinalityType, GatewayAssumption DEF Sized
<1>4. a + p <= Limit + 2 * n - 1 /\ b + q <= a + p /\ b \in Nat /\ q \in Nat
  BY <1>2 DEF Over, Shrinks
<1>5. b + q <= Limit + 2 * n - 1
  BY ONLY <1>3, <1>4
<1> QED
  BY <1>2, <1>5 DEF Over

\* The same for a step that admits nobody for the key.
LEMMA OpenStays ==
    ASSUME Ind, IsFiniteSet(Requests), NEW k \in KeyIds, NEW u, Open(k, u), admitted'[k] = admitted[k],
           InWin(k, u) \subseteq zset'[k], Adding(k, u)' \subseteq Adding(k, u)
    PROVE  Open(k, u)'
<1>1. Sized(k, u)
  BY WindowsSized
<1>2. PICK A, P, Q : A = InWin(k, u) /\ P = Adding(k, u) /\ Q = Adding(k, u)'
  OBVIOUS
<1>3. InWin(k, u)' = A
  BY <1>2 DEF InWin
<1>4. Shrinks(A, A, P, Q)
  BY <1>1, <1>2, NothingAdded DEF Sized
<1> QED
  BY <1>2, <1>3, <1>4, OpenKept

LEMMA OverStays ==
    ASSUME Ind, IsFiniteSet(Requests), NEW k \in KeyIds, NEW u, Over(k, u), admitted'[k] = admitted[k],
           Waiting(k, u)' \subseteq Waiting(k, u)
    PROVE  Over(k, u)'
<1>1. Sized(k, u)
  BY WindowsSized
<1>2. PICK A, P, Q : A = InWin(k, u) /\ P = Waiting(k, u) /\ Q = Waiting(k, u)'
  OBVIOUS
<1>3. InWin(k, u)' = A
  BY <1>2 DEF InWin
<1>4. Shrinks(A, A, P, Q)
  BY <1>1, <1>2, NothingAdded DEF Sized
<1> QED
  BY <1>2, <1>3, <1>4, OverKept

LEMMA AsideWindows ==
    ASSUME Ind, IsFiniteSet(Requests), Windows, UNCHANGED <<clock, zset, expiry, admitted>>,
           \A q \in Requests : Stays(q) \/ Arrives(q)
    PROVE  Windows'
<1> USE DEF AtLimiter
<1>1. clock' = clock /\ zset' = zset /\ admitted' = admitted /\ expiry' = expiry /\ clock \in Nat
  BY ClockIs DEF Ind
<1>2. \A q \in Requests : req'[q].pc = "add" =>
          req[q].pc = "add" /\ req'[q].key = req[q].key /\ req'[q].at = req[q].at
  BY DEF Stays, Arrives
<1>3. \A q \in Requests : req'[q].pc = "count" =>
          \/ req[q].pc = "count" /\ req'[q].key = req[q].key /\ req'[q].at = req[q].at
          \/ req'[q].at = clock
  BY DEF Stays, Arrives
<1>4. Outlived'
  BY <1>1, <1>2 DEF Windows, Outlived
<1>5. ASSUME NEW k \in KeyIds, NEW u \in 0 .. MaxTime
      PROVE  IF clock' <= u THEN Open(k, u)' ELSE Over(k, u)'
  <2>1. MaxTime \in Nat
    BY GatewayAssumption
  <2>2. CASE clock <= u
    <3>1. Open(k, u)
      BY <2>2 DEF Windows
    <3>2. Adding(k, u)' \subseteq Adding(k, u)
      BY <1>2 DEF Adding
    <3>3. InWin(k, u) \subseteq zset'[k]
      BY <1>1, <3>1 DEF Open
    <3> QED
      BY <1>1, <2>2, <3>1, <3>2, <3>3, OpenStays
  <2>3. CASE ~(clock <= u)
    <3>1. Over(k, u)
      BY <2>3 DEF Windows
    <3>2. ASSUME NEW q \in Waiting(k, u)'
          PROVE  q \in Waiting(k, u)
      <4>1. q \in Requests /\ req'[q].pc \in {"count", "add"} /\ req'[q].at <= u
        BY <3>2 DEF Waiting
      <4>2. req'[q].at # clock
        BY <2>3, <4>1
      <4> QED
        BY <1>2, <1>3, <3>2, <4>1, <4>2 DEF Waiting
    <3> QED
      BY <1>1, <2>3, <3>1, <3>2, OverStays
  <2> QED
    BY <1>1, <2>2, <2>3
<1> QED
  BY <1>4, <1>5 DEF Windows

LEMMA TickWindows ==
    ASSUME Ind, IsFiniteSet(Requests), Windows, Tick
    PROVE  Windows'
<1>1. clock' = clock + 1 /\ zset' = zset /\ admitted' = admitted /\ expiry' = expiry /\ req' = req
  BY DEF Tick, limiter
<1>2. clock \in Nat /\ MaxTime \in Nat
  BY ClockIs, GatewayAssumption DEF Ind
<1>3. Outlived'
  BY <1>1 DEF Windows, Outlived
<1>4. ASSUME NEW k \in KeyIds, NEW u \in 0 .. MaxTime
      PROVE  IF clock' <= u THEN Open(k, u)' ELSE Over(k, u)'
  <2>1. InWin(k, u)' = InWin(k, u) /\ Adding(k, u)' = Adding(k, u) /\ Waiting(k, u)' = Waiting(k, u)
    BY <1>1 DEF InWin, Adding, Waiting
  <2>2. CASE clock <= u
    <3>1. Open(k, u)
      BY <2>2 DEF Windows
    <3>2. Open(k, u)'
      BY <1>1, <2>1, <3>1 DEF Open
    <3>3. Over(k, u)
      <4>1. Sized(k, u)
        BY WindowsSized
      <4>2. PICK a, p, w, n : /\ a = Cardinality(InWin(k, u)) /\ p = Cardinality(Adding(k, u))
                              /\ w = Cardinality(Waiting(k, u)) /\ n = Cardinality(Requests)
        OBVIOUS
      <4>3. a \in Nat /\ n \in Nat /\ p \in 0 .. n /\ w \in 0 .. n /\ Limit \in Nat
        BY <4>1, <4>2, FS_CardinalityType, GatewayAssumption DEF Sized
      <4>4. a + p <= Limit + n - 1
        BY <3>1, <4>2 DEF Open
      <4>5. a + w <= Limit + 2 * n - 1
        BY ONLY <4>3, <4>4
      <4> QED
        BY <4>2, <4>5 DEF Over
    <3>4. Over(k, u)'
      BY <2>1, <3>3 DEF Over
    <3> QED
      BY <3>2, <3>4
  <2>3. CASE ~(clock <= u)
    <3>1. Over(k, u)' /\ ~(clock' <= u)
      BY <1>1, <1>2, <2>1, <2>3 DEF Windows, Over
    <3> QED
      BY <3>1
  <2> QED
    BY <2>2, <2>3
<1> QED
  BY <1>3, <1>4 DEF Windows

\* A key expires when its entries have left every window that is open.
LEMMA ExpireWindows ==
    ASSUME Ind, IsFiniteSet(Requests), Windows, NEW l \in KeyIds, Expire(l)
    PROVE  Windows'
<1>1. /\ clock' = clock /\ admitted' = admitted /\ req' = req /\ expiry[l] # Never /\ clock >= expiry[l]
      /\ zset' = [zset EXCEPT ![l] = {}] /\ expiry' = [expiry EXCEPT ![l] = Never]
  BY DEF Expire
<1>2. /\ clock \in Nat /\ MaxTime \in Nat /\ zset \in [KeyIds -> SUBSET (0 .. clock)]
      /\ expiry \in [KeyIds -> Nat \cup {Never}] /\ Window \in Nat /\ Slack \in Nat /\ Ttl = Window + Slack
  BY ClockIs, GatewayAssumption DEF Ind, Limiter, Ttl
<1>3. zset'[l] = {} /\ expiry'[l] = Never /\ \A k \in KeyIds : k # l => zset'[k] = zset[k] /\ expiry'[k] = expiry[k]
  BY <1>1, <1>2
<1>4. Outlived'
  BY <1>1, <1>3 DEF Windows, Outlived
<1>5. \A s \in zset[l] : s <= clock - Window
  <2>1. expiry[l] \in Nat /\ \A s \in zset[l] : s \in Nat /\ s <= expiry[l] - Ttl
    BY <1>1, <1>2 DEF Windows, Outlived
  <2> QED
    BY <1>1, <1>2, <2>1
<1>6. ASSUME NEW k \in KeyIds, NEW u \in 0 .. MaxTime
      PROVE  IF clock' <= u THEN Open(k, u)' ELSE Over(k, u)'
  <2>1. Adding(k, u)' = Adding(k, u) /\ Waiting(k, u)' = Waiting(k, u)
    BY <1>1 DEF Adding, Waiting
  <2>2. CASE clock <= u
    <3>1. Open(k, u)
      BY <2>2 DEF Windows
    <3>2. ASSUME NEW s \in InWin(k, u)
          PROVE  s \in zset'[k]
      <4>1. s \in zset[k] /\ s \in Nat
        BY <1>2, <3>1 DEF Open
      <4>2. s > u - Window
        BY DEF InWin
      <4>3. CASE k = l
        BY <1>2, <1>5, <2>2, <4>1, <4>2, <4>3
      <4> QED
        BY <1>3, <4>1, <4>3
    <3> QED
      BY <1>1, <2>1, <2>2, <3>1, <3>2, OpenStays
  <2>3. CASE ~(clock <= u)
    <3>1. Over(k, u)
      BY <2>3 DEF Windows
    <3> QED
      BY <1>1, <2>1, <2>3, <3>1, OverStays
  <2> QED
    BY <1>1, <2>2, <2>3
<1> QED
  BY <1>4, <1>6 DEF Windows

\* The check of a request that finds room.
LEMMA RoomFound ==
    ASSUME Ind, IsFiniteSet(Requests), NEW k \in KeyIds, NEW u \in Int, NEW at \in Int, at <= u,
           InWin(k, u) \subseteq zset[k], Cardinality(Recent(k, at)) < Limit
    PROVE  Cardinality(InWin(k, u)) \in Nat /\ Cardinality(InWin(k, u)) <= Limit - 1
<1>1. IsFiniteSet(zset[k]) /\ zset[k] \subseteq Nat
  BY EntriesFinite
<1>2. PICK A, B : A = InWin(k, u) /\ B = Recent(k, at)
  OBVIOUS
<1>3. Window \in Nat /\ Limit \in Nat
  BY GatewayAssumption
<1>4. B \subseteq zset[k]
  BY <1>2 DEF Recent
<1>5. A \subseteq B
  <2> SUFFICES ASSUME NEW s \in A
               PROVE  s \in B
    OBVIOUS
  <2>1. s \in zset[k] /\ s \in Nat /\ u - Window < s
    BY <1>1, <1>2 DEF InWin
  <2>2. s > at - Window
    BY <1>3, <2>1
  <2> QED
    BY <1>2, <2>1, <2>2 DEF Recent
<1>6. IsFiniteSet(B)
  BY <1>1, <1>4, FS_Subset
<1>7. Cardinality(A) \in Nat /\ Cardinality(B) \in Nat /\ Cardinality(A) <= Cardinality(B)
  BY <1>5, <1>6, FS_Subset, FS_CardinalityType
<1>8. Cardinality(B) < Limit
  BY <1>2
<1>9. Cardinality(A) <= Limit - 1
  BY ONLY <1>3, <1>7, <1>8
<1> QED
  BY <1>2, <1>7, <1>9

LEMMA CountWindows ==
    ASSUME Ind, IsFiniteSet(Requests), Windows, NEW r \in Requests, Count(r)
    PROVE  Windows'
<1>1. PICK l, at, kept, pc : /\ l = req[r].key /\ at = req[r].at /\ kept = Recent(l, at)
                             /\ pc = IF Allowed(Cardinality(kept)) THEN "add" ELSE "oldest"
  OBVIOUS
<1>2. /\ clock' = clock /\ admitted' = admitted /\ req[r].pc = "count" /\ zset' = [zset EXCEPT ![l] = kept]
      /\ expiry' = [expiry EXCEPT ![l] = IF kept = {} THEN Never ELSE clock + Ttl]
      /\ req' = [req EXCEPT ![r].pc = pc]
  BY <1>1 DEF Count
<1>3. /\ clock \in Nat /\ MaxTime \in Nat /\ zset \in [KeyIds -> SUBSET (0 .. clock)]
      /\ expiry \in [KeyIds -> Nat \cup {Never}] /\ Window \in Nat /\ Slack \in Nat /\ Ttl = Window + Slack
      /\ Limit \in Nat /\ Never \notin Int
  BY ClockIs, GatewayAssumption DEF Ind, Limiter, Ttl
<1>4. l \in KeyIds /\ at \in Nat /\ at <= clock /\ \A q \in Requests : req[q].at \in Nat /\ req[q].at <= clock
  BY <1>1, <1>2 DEF Ind, Typed, Request, Sound, ReadPCs
<1>5. /\ req'[r].pc = pc /\ req'[r].key = l /\ req'[r].at = at
      /\ \A q \in Requests : q # r => req'[q] = req[q]
  <2>1. PICK g, h : g = req[r] /\ h = [g EXCEPT !.pc = pc]
    OBVIOUS
  <2>2. g \in Request /\ req' = [req EXCEPT ![r] = h] /\ req \in [Requests -> Request]
    BY <1>2, <2>1 DEF Ind, Typed
  <2>3. h.pc = pc /\ h.key = g.key /\ h.at = g.at
    BY ONLY <2>1, <2>2 DEF Request
  <2> QED
    BY <1>1, <2>1, <2>2, <2>3
<1>6. /\ zset'[l] = kept /\ \A k \in KeyIds : k # l => zset'[k] = zset[k] /\ expiry'[k] = expiry[k]
      /\ expiry'[l] = IF kept = {} THEN Never ELSE clock + Ttl
  BY <1>2, <1>3, <1>4
<1>7. kept = {t \in zset[l] : t > at - Window}
  BY <1>1 DEF Recent
<1>8. Outlived'
  <2>1. ASSUME NEW k \in KeyIds, expiry'[k] # Never
        PROVE  /\ \A s \in zset'[k] : s <= expiry'[k] - Ttl
               /\ \A q \in Requests : req'[q].pc = "add" /\ req'[q].key = k => req'[q].at <= expiry'[k] - Ttl
    <3>1. CASE k = l
      <4>1. expiry'[k] - Ttl = clock
        BY <1>3, <1>6, <2>1, <3>1
      <4>2. \A s \in zset'[k] : s <= clock
        BY <1>3, <1>4, <1>6, <1>7, <3>1
      <4>3. \A q \in Requests : req'[q].at <= clock
        BY <1>4, <1>5
      <4> QED
        BY <4>1, <4>2, <4>3
    <3>2. CASE k # l
      BY <1>5, <1>6, <2>1, <3>2 DEF Windows, Outlived
    <3> QED
      BY <3>1, <3>2
  <2> QED
    BY <2>1 DEF Outlived
<1>9. ASSUME NEW k \in KeyIds, NEW u \in 0 .. MaxTime
      PROVE  IF clock' <= u THEN Open(k, u)' ELSE Over(k, u)'
  <2>1. CASE clock <= u
    <3>1. Open(k, u)
      BY <2>1 DEF Windows
    <3>2. ASSUME NEW s \in InWin(k, u)
          PROVE  s \in zset'[k]
      <4>1. s \in zset[k] /\ s \in Nat
        BY <1>3, <3>1 DEF Open
      <4>2. s > u - Window
        BY DEF InWin
      <4>3. CASE k = l
        <5>1. s > at - Window
          BY <1>3, <1>4, <2>1, <4>1, <4>2
        <5> QED
          BY <1>6, <1>7, <4>1, <4>3, <5>1
      <4> QED
        BY <1>6, <4>1, <4>3
    <3>3. CASE pc = "add" /\ k = l
      <4>1. Cardinality(Recent(k, at)) < Limit
        BY <1>1, <3>3 DEF Allowed
      <4>2. Cardinality(InWin(k, u)) \in Nat /\ Cardinality(InWin(k, u)) <= Limit - 1
        BY <1>3, <1>4, <2>1, <3>1, <4>1, RoomFound DEF Open
      <4>3. InWin(k, u)' = InWin(k, u) /\ Adding(k, u)' \subseteq Requests
        BY <1>2 DEF InWin, Adding
      <4>4. PICK a, q, n : a = Cardinality(InWin(k, u)) /\ q = Cardinality(Adding(k, u)') /\ n = Cardinality(Requests)
        OBVIOUS
      <4>5. n \in Nat /\ q \in Nat /\ q <= n
        BY <4>3, <4>4, FS_Subset, FS_CardinalityType
      <4>6. a + q <= Limit + n - 1
        BY <1>3, <4>2, <4>4, <4>5
      <4> QED
        BY <1>2, <2>1, <3>2, <4>3, <4>4, <4>6 DEF Open
    <3>4. CASE ~(pc = "add" /\ k = l)
      <4>1. Adding(k, u)' \subseteq Adding(k, u)
        BY <1>5, <3>4 DEF Adding
      <4> QED
        BY <1>2, <2>1, <3>1, <3>2, <4>1, OpenStays
    <3> QED
      BY <3>3, <3>4
  <2>2. CASE ~(clock <= u)
    <3>1. Over(k, u)
      BY <2>2 DEF Windows
    <3>2. Waiting(k, u)' \subseteq Waiting(k, u)
      BY <1>1, <1>2, <1>5 DEF Waiting
    <3> QED
      BY <1>2, <2>2, <3>1, <3>2, OverStays
  <2> QED
    BY <1>2, <2>1, <2>2
<1> QED
  BY <1>8, <1>9 DEF Windows

LEMMA AddWindows ==
    ASSUME Ind, IsFiniteSet(Requests), Windows, NEW r \in Requests, Add(r)
    PROVE  Windows'
<1>1. PICK l, at : l = req[r].key /\ at = req[r].at
  OBVIOUS
<1>2. /\ clock' = clock /\ expiry' = expiry /\ req[r].pc = "add" /\ zset' = [zset EXCEPT ![l] = @ \cup {at}]
      /\ admitted' = [admitted EXCEPT ![l] = @ \cup {at}] /\ req' = [req EXCEPT ![r].pc = "permit"]
  BY <1>1 DEF Add, Stamp
<1>3. /\ clock \in Nat /\ MaxTime \in Nat /\ zset \in [KeyIds -> SUBSET (0 .. clock)]
      /\ admitted \in [KeyIds -> SUBSET (0 .. clock)]
  BY ClockIs, GatewayAssumption DEF Ind, Limiter
<1>4. l \in KeyIds /\ at \in Nat
  BY <1>1, <1>2 DEF Ind, Typed, Request, Sound, ReadPCs
<1>5. req'[r].pc = "permit" /\ \A q \in Requests : q # r => req'[q] = req[q]
  <2>1. PICK g, h : g = req[r] /\ h = [g EXCEPT !.pc = "permit"]
    OBVIOUS
  <2>2. g \in Request /\ req' = [req EXCEPT ![r] = h] /\ req \in [Requests -> Request]
    BY <1>2, <2>1 DEF Ind, Typed
  <2>3. h.pc = "permit"
    BY ONLY <2>1, <2>2 DEF Request
  <2> QED
    BY <2>2, <2>3
<1>6. /\ zset'[l] = zset[l] \cup {at} /\ admitted'[l] = admitted[l] \cup {at}
      /\ \A k \in KeyIds : k # l => zset'[k] = zset[k] /\ admitted'[k] = admitted[k]
  BY <1>2, <1>3, <1>4
<1>7. Outlived'
  BY <1>1, <1>2, <1>5, <1>6 DEF Windows, Outlived
<1>8. ASSUME NEW k \in KeyIds, NEW u \in 0 .. MaxTime
      PROVE  IF clock' <= u THEN Open(k, u)' ELSE Over(k, u)'
  <2>1. Adding(k, u)' \subseteq Adding(k, u) \ {r} /\ Waiting(k, u)' \subseteq Waiting(k, u) \ {r}
    BY <1>5 DEF Adding, Waiting
  <2>2. Sized(k, u)
    BY WindowsSized
  <2>3. PICK A, B : A = InWin(k, u) /\ B = InWin(k, u)'
    OBVIOUS
  <2>4. PICK P, Q : P = Adding(k, u) /\ Q = Adding(k, u)'
    OBVIOUS
  <2>5. PICK V, W : V = Waiting(k, u) /\ W = Waiting(k, u)'
    OBVIOUS
  <2>6. IsFiniteSet(A) /\ IsFiniteSet(P) /\ IsFiniteSet(V) /\ Q \subseteq P \ {r} /\ W \subseteq V \ {r}
    BY <2>1, <2>2, <2>3, <2>4, <2>5 DEF Sized
  <2>7. Shrinks(A, B, P, Q) /\ Shrinks(A, B, V, W)
    <3>1. CASE k = l /\ u - Window < at /\ at <= u
      <4>1. B \subseteq A \cup {at}
        BY <1>6, <2>3, <3>1 DEF InWin
      <4>2. r \in P /\ r \in V
        BY <1>1, <1>2, <2>4, <2>5, <3>1 DEF Adding, Waiting
      <4> QED
        BY ONLY <2>6, <4>1, <4>2, OneAdded
    <3>2. CASE ~(k = l /\ u - Window < at /\ at <= u)
      <4>1. B = A
        BY <1>6, <2>3, <3>2 DEF InWin
      <4>2. Q \subseteq P /\ W \subseteq V
        BY ONLY <2>6
      <4> QED
        BY ONLY <2>6, <4>1, <4>2, NothingAdded
    <3> QED
      BY <3>1, <3>2
  <2>8. CASE clock <= u
    <3>1. Open(k, u)
      BY <2>8 DEF Windows
    <3>2. InWin(k, u)' \subseteq zset'[k]
      BY <1>6, <3>1 DEF Open, InWin
    <3> QED
      BY <1>2, <2>3, <2>4, <2>7, <2>8, <3>1, <3>2, OpenKept
  <2>9. CASE ~(clock <= u)
    <3>1. Over(k, u)
      BY <2>9 DEF Windows
    <3> QED
      BY <1>2, <2>3, <2>5, <2>7, <2>9, <3>1, OverKept
  <2> QED
    BY <1>2, <2>8, <2>9
<1> QED
  BY <1>7, <1>8 DEF Windows

LEMMA WindowsInit ==
    ASSUME Init, IsFiniteSet(Requests), Requests # {}
    PROVE  Windows
<1>1. /\ zset = [k \in KeyIds |-> {}] /\ admitted = [k \in KeyIds |-> {}] /\ expiry = [k \in KeyIds |-> Never]
      /\ req = [r \in Requests |-> Idle] /\ clock = 0
  BY DEF Init
<1>2. Outlived
  BY <1>1 DEF Outlived
<1>3. ASSUME NEW k \in KeyIds, NEW u \in 0 .. MaxTime
      PROVE  Open(k, u)
  <2>1. InWin(k, u) = {} /\ Adding(k, u) = {}
    BY <1>1, IdleRequest DEF InWin, Adding
  <2>2. Cardinality({}) = 0 /\ Cardinality(Requests) \in Nat /\ Cardinality(Requests) # 0 /\ Limit \in Nat
    BY FS_EmptySet, FS_CardinalityType, GatewayAssumption
  <2> QED
    BY <2>1, <2>2 DEF Open
<1> QED
  BY <1>1, <1>2, <1>3, GatewayAssumption DEF Windows

LEMMA WindowsNext ==
    ASSUME Ind, IsFiniteSet(Requests), Windows, [Next]_vars
    PROVE  Windows'
<1>1. CASE Aside
  BY <1>1, AsideWindows DEF Aside
<1>2. ASSUME NEW r \in Requests, Reject(r)
      PROVE  Windows'
  <2>1. UNCHANGED <<clock, zset, expiry, admitted>> /\ Finish(r)
    BY <1>2 DEF Reject
  <2>2. \A q \in Requests : Stays(q) \/ Arrives(q)
    BY <2>1, Leaves DEF Ind
  <2> QED
    BY <2>1, <2>2, AsideWindows
<1> QED
  BY <1>1, <1>2, TickWindows, ExpireWindows, CountWindows, AddWindows, LimiterSteps

\* A window within its bounds is within the larger one.
LEMMA WindowBounded ==
    ASSUME Ind, IsFiniteSet(Requests), Windows, NEW k \in KeyIds, NEW u \in 0 .. MaxTime
    PROVE  Cardinality(InWin(k, u)) <= Limit + 2 * Cardinality(Requests) - 1
<1>1. Sized(k, u)
  BY WindowsSized
<1>2. PICK a, p, w, n : /\ a = Cardinality(InWin(k, u)) /\ p = Cardinality(Adding(k, u))
                        /\ w = Cardinality(Waiting(k, u)) /\ n = Cardinality(Requests)
  OBVIOUS
<1>3. a \in Nat /\ n \in Nat /\ p \in 0 .. n /\ w \in 0 .. n /\ Limit \in Nat
  BY <1>1, <1>2, FS_CardinalityType, GatewayAssumption DEF Sized
<1>4. \/ a + p <= Limit + n - 1
      \/ a + w <= Limit + 2 * n - 1
  BY <1>2 DEF Windows, Open, Over
<1>5. a <= Limit + 2 * n - 1
  BY ONLY <1>3, <1>4
<1> QED
  BY <1>2, <1>5

\* Every window of every key is within the bound.
Bounded == \A k \in KeyIds, u \in 0 .. MaxTime :
    Cardinality(InWin(k, u)) <= Limit + 2 * Cardinality(Requests) - 1

\* The abstract specification counts as this one does.
LEMMA SameCount == \A S : Sliding!Cardinality(S) = Cardinality(S)
  BY Zenon DEF Cardinality, Sliding!Cardinality

LEMMA AdmitMapped ==
    ASSUME Ind, Bounded', NEW r \in Requests, Add(r)
    PROVE  Sliding!Next
<1>1. PICK k, t : k = req[r].key /\ t = req[r].at
  OBVIOUS
<1>2. req[r].pc = "add" /\ admitted' = [admitted EXCEPT ![k] = @ \cup {t}]
  BY <1>1 DEF Add, Stamp
<1>3. k \in KeyIds /\ t \in Nat /\ t <= clock
  BY <1>1, <1>2 DEF Ind, Typed, Request, Sound, ReadPCs
<1>4. t \in 0 .. MaxTime
  <2>1. clock \in 0 .. profile.time /\ profile.time \in 0 .. MaxTime /\ MaxTime \in Nat
    BY GatewayAssumption DEF Ind, Stores
  <2> QED
    BY <1>3, <2>1
<1>5. admitted'[k] = admitted[k] \cup {t}
  BY <1>2, <1>3 DEF Ind, Limiter
<1>6. ASSUME NEW u \in 0 .. MaxTime
      PROVE  Cardinality(Sliding!InWindow(admitted[k] \cup {t}, u)) <= Limit + 2 * Cardinality(Requests) - 1
  <2>1. Sliding!InWindow(admitted[k] \cup {t}, u) = InWin(k, u)'
    BY <1>5 DEF Sliding!InWindow, InWin
  <2>2. Cardinality(InWin(k, u)') <= Limit + 2 * Cardinality(Requests) - 1
    BY <1>3 DEF Bounded
  <2> QED
    BY <2>1, <2>2
<1>7. Sliding!Admit(k, t)
  <2>1. admitted' = [admitted EXCEPT ![k] = admitted[k] \cup {t}]
    BY <1>2
  <2>2. \A u \in 0 .. MaxTime :
          Sliding!Cardinality(Sliding!InWindow(admitted[k] \cup {t}, u)) <= Limit + 2 * Cardinality(Requests) - 1
    BY <1>6, SameCount
  <2> QED
    BY ONLY <2>1, <2>2 DEF Sliding!Admit
<1> QED
  BY <1>3, <1>4, <1>7 DEF Sliding!Next

\* The limiter implements the window limit: whatever requests do between the check
\* and the entry of check_and_consume, however long they take, and whenever Redis
\* drops a key, no window of any key admits more than the limit and twice the
\* requests the server works on at once, less one.
THEOREM LimiterImplements ==
    ASSUME IsFiniteSet(Requests), Requests # {}
    PROVE  Spec => ImplementsWindowLimit
<1>1. Init => Windows
  BY WindowsInit
<1>2. Windows /\ Ind /\ [Next]_vars => Windows'
  BY WindowsNext
<1>3. Ind /\ Windows => Bounded
  BY WindowBounded DEF Bounded
<1>4. Init => Sliding!Init
  BY DEF Init, Sliding!Init
<1>5. Ind /\ Bounded' /\ [Next]_vars => [Sliding!Next]_admitted
  <2> SUFFICES ASSUME Ind, Bounded', [Next]_vars
               PROVE  [Sliding!Next]_admitted
    OBVIOUS
  <2>1. ASSUME NEW r \in Requests, Count(r) \/ Reject(r)
        PROVE  UNCHANGED admitted
    BY <2>1 DEF Count, Reject
  <2>2. CASE Aside \/ Tick \/ \E k \in KeyIds : Expire(k)
    BY <2>2 DEF Aside, Tick, Expire, limiter
  <2> QED
    BY <2>1, <2>2, AdmitMapped, LimiterSteps
<1> QED
  BY <1>1, <1>2, <1>3, <1>4, <1>5, GatewayConsistent, PTL DEF Spec, ImplementsWindowLimit, Sliding!Spec
=============================================================================
