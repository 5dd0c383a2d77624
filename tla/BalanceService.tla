--------------------------- MODULE BalanceService ---------------------------
(***************************************************************************)
(* The balance rows of PostgreSQL and the database sessions that change    *)
(* them through BalanceService / BalanceRepository.                        *)
(*                                                                         *)
(* A session is one AsyncSession: an API request or a stop trigger works   *)
(* "optimistic" (SELECT, then UPDATE ... WHERE version = expected, retried *)
(* MaxRetries times); cancel, the matching worker and the admin API work   *)
(* "pessimistic" (SELECT ... FOR UPDATE, change the ORM object, flush).    *)
(* Every await is a step of its own, so the steps of sessions interleave.  *)
(*                                                                         *)
(* PostgreSQL runs READ COMMITTED: db holds the committed rows, holder[r]  *)
(* the session that has written or locked row r, pending[r] its uncommitted*)
(* version.  A session that needs a row another session holds waits.       *)
(* mem[s] is the session's ORM identity map.                               *)
(***************************************************************************)
EXTENDS Integers

CONSTANTS
    Rows,           \* (user, asset) pairs
    Sessions,       \* concurrently open database sessions
    NoSession,      \* "nobody holds the row"
    Existing,       \* rows present before the first session
    Amounts,        \* amounts passed to the operations
    MaxRetries,     \* MAX_OPTIMISTIC_RETRIES
    LateRow,        \* may a row appear between the two reads of admin_adjust?
    MaxBalance,     \* bound: no operation raises a total above it
    MaxVersion      \* bound: no operation starts on a row at this version

ASSUME SessionAssumption == NoSession \notin Sessions
ASSUME RowAssumption == Rows # {} /\ Existing \subseteq Rows
ASSUME AmountAssumption == Amounts \subseteq Nat
ASSUME RetryAssumption == MaxRetries \in Nat \ {0}
ASSUME BoundAssumption == MaxBalance \in Nat /\ MaxVersion \in Nat /\ LateRow \in BOOLEAN

VARIABLES
    db,         \* committed rows
    holder,     \* who holds the row lock
    pending,    \* the holder's uncommitted version of the row
    mem,        \* identity map of each session
    mode,       \* "none" (no session), "optimistic" or "pessimistic"
    call,       \* the operation each session is executing
    effects,    \* what each open transaction has been told was done (history)
    ledger      \* what all committed transactions were told was done (history)

vars == <<db, holder, pending, mem, mode, call, effects, ledger>>

-----------------------------------------------------------------------------
(* Rows.  version counts from 1; version 0 stands for "no such row".       *)

Row == [total: Int, locked: Int, available: Int, version: Nat]
Entry == [total: Int, locked: Int, available: Int]

NoRow == [total |-> 0, locked |-> 0, available |-> 0, version |-> 0]
ZeroRow == [total |-> 0, locked |-> 0, available |-> 0, version |-> 1]
NoEntry == [total |-> 0, locked |-> 0, available |-> 0]

Exists(b) == b.version > 0

\* Balance.check_invariant
check_invariant(b) == b.total = b.locked + b.available

CanSpend(b, a) == b.locked >= a
CanLock(b, a) == b.available >= a

\* The row with its columns moved and its version bumped.
Move(b, total, locked, available) ==
    [total |-> b.total + total, locked |-> b.locked + locked,
     available |-> b.available + available, version |-> b.version + 1]

\* Mutants: settling forgets the total; a credit forgets the version.
SettleKeepsTotal(b, a) == Move(b, 0, -a, 0)
CreditKeepsVersion(b, a) == [Move(b, a, 0, a) EXCEPT !.version = b.version]

lock(b, a) == Move(b, 0, a, -a)
unlock(b, a) == Move(b, 0, -a, a)
settle(b, a) == Move(b, -a, -a, 0)
credit(b, a) == Move(b, a, 0, a)
debit(b, a) == Move(b, -a, 0, -a)

OptimisticOps == {"lock", "unlock", "settle", "credit"}
AdminOps == {"admin_credit", "admin_debit"}
Ops == OptimisticOps \cup AdminOps

\* Mutant: only lock tests its column.
AllowedUncovered(op, b, a) == op = "lock" => CanLock(b, a)

\* Whether the operation's guard (the UPDATE's WHERE, the ValueError and
\* InsufficientBalanceError tests of the pessimistic helpers) lets it through.
Allowed(op, b, a) ==
    CASE op \in {"lock", "admin_debit"} -> CanLock(b, a)
      [] op \in {"unlock", "settle"}    -> CanSpend(b, a)
      [] op \in {"credit", "admin_credit"} -> TRUE

\* The columns the operation writes.
Changed(op, b, a) ==
    CASE op = "lock"   -> lock(b, a)
      [] op = "unlock" -> unlock(b, a)
      [] op = "settle" -> settle(b, a)
      [] op \in {"credit", "admin_credit"} -> credit(b, a)
      [] op = "admin_debit" -> debit(b, a)

\* What the operation promises its caller, independent of the columns above.
Promise(op, a) ==
    CASE op = "lock"   -> [total |-> 0,  locked |-> a,  available |-> -a]
      [] op = "unlock" -> [total |-> 0,  locked |-> -a, available |-> a]
      [] op = "settle" -> [total |-> -a, locked |-> -a, available |-> 0]
      [] op \in {"credit", "admin_credit"} -> [total |-> a, locked |-> 0, available |-> a]
      [] op = "admin_debit" -> [total |-> -a, locked |-> 0, available |-> -a]

Plus(e, f) == [total |-> e.total + f.total, locked |-> e.locked + f.locked,
               available |-> e.available + f.available]

Amounts3(b) == [total |-> b.total, locked |-> b.locked, available |-> b.available]

-----------------------------------------------------------------------------
(* What a statement of session s sees.                                     *)

Visible(s, r) == IF holder[r] = s THEN pending[r] ELSE db[r]

\* The ORM object a SELECT returns: an object already in the identity map
\* keeps the attribute values it was loaded with (no populate_existing).
Loaded(s, r) == IF Exists(mem[s][r]) THEN mem[s][r] ELSE Visible(s, r)

MayWrite(s, r) == holder[r] \in {NoSession, s}

\* A flush writes the columns whose value changed in memory, and no others.
Flush(cur, old, new) ==
    LET column(c, o, n) == IF n = o THEN c ELSE n
    IN  [total |-> column(cur.total, old.total, new.total),
         locked |-> column(cur.locked, old.locked, new.locked),
         available |-> column(cur.available, old.available, new.available),
         version |-> column(cur.version, old.version, new.version)]

Idle == [pc |-> "idle", op |-> "lock", row |-> CHOOSE r \in Rows : TRUE,
         amt |-> 0, attempt |-> 0]

Goto(s, l) == call' = [call EXCEPT ![s].pc = l]

Return(s) == call' = [call EXCEPT ![s] = Idle]

\* The next turn of `for attempt in range(MAX_OPTIMISTIC_RETRIES)`, or
\* BalanceVersionConflict after the last one.
NextAttempt(s) ==
    call' = [call EXCEPT ![s].pc = IF call[s].attempt < MaxRetries THEN "select" ELSE "failed",
                         ![s].attempt = IF call[s].attempt < MaxRetries THEN @ + 1 ELSE @]

Write(s, r, b) == /\ pending' = [pending EXCEPT ![r] = b]
                  /\ holder' = [holder EXCEPT ![r] = s]

Told(s, r, op, a) == effects' = [effects EXCEPT ![s][r] = Plus(@, Promise(op, a))]

WithinBounds(s, r, op, a) ==
    /\ Visible(s, r).version < MaxVersion
    /\ op \in {"credit", "admin_credit"} => Visible(s, r).total + a <= MaxBalance

-----------------------------------------------------------------------------
Init ==
    /\ db = [r \in Rows |-> IF r \in Existing THEN ZeroRow ELSE NoRow]
    /\ holder = [r \in Rows |-> NoSession]
    /\ pending = db
    /\ mem = [s \in Sessions |-> [r \in Rows |-> NoRow]]
    /\ mode = [s \in Sessions |-> "none"]
    /\ call = [s \in Sessions |-> Idle]
    /\ effects = [s \in Sessions |-> [r \in Rows |-> NoEntry]]
    /\ ledger = [r \in Rows |-> NoEntry]

\* A request, a worker transaction or an admin call opens its session.
Begin(s, m) ==
    /\ mode[s] = "none"
    /\ mode' = [mode EXCEPT ![s] = m]
    /\ UNCHANGED <<db, holder, pending, mem, call, effects, ledger>>

\* lock_optimistic / unlock_optimistic / settle_optimistic / credit_optimistic:
\* the amount check, then the retry loop.
CallOptimistic(s, op, r, a) ==
    /\ mode[s] = "optimistic" /\ call[s].pc = "idle"
    /\ WithinBounds(s, r, op, a)
    /\ call' = [call EXCEPT ![s] = [pc |-> IF a <= 0 THEN "failed" ELSE "select",
                                    op |-> op, row |-> r, amt |-> a, attempt |-> 1]]
    /\ UNCHANGED <<db, holder, pending, mem, mode, effects, ledger>>

\* get_by_user_asset at the head of the loop and the checks on its result.
SelectRow(s) ==
    LET c == call[s]
        seen == Loaded(s, c.row)
    IN  /\ c.pc = "select"
        /\ mem' = [mem EXCEPT ![s][c.row] = seen]
        /\ Goto(s, IF ~Exists(seen)
                   THEN IF c.op \in {"lock", "credit"} THEN "create" ELSE "failed"
                   ELSE IF c.op = "lock" /\ ~CanLock(seen, c.amt) THEN "failed" ELSE "update")
        /\ UNCHANGED <<db, holder, pending, mode, effects, ledger>>

\* The SELECT inside get_or_create.  When it finds the row: lock goes on with
\* it, credit takes its `continue`, admin_adjust re-locks it.
CreateSelect(s) ==
    LET c == call[s]
        seen == Loaded(s, c.row)
    IN  /\ c.pc = "create"
        /\ mem' = [mem EXCEPT ![s][c.row] = seen]
        /\ \/ ~Exists(seen) /\ Goto(s, "insert")
           \/ /\ Exists(seen) /\ c.op = "lock"
              /\ Goto(s, IF CanLock(seen, c.amt) THEN "update" ELSE "failed")
           \/ Exists(seen) /\ c.op = "credit" /\ NextAttempt(s)
           \/ LateRow /\ Exists(seen) /\ c.op \in AdminOps /\ Goto(s, "forupdate")
        /\ UNCHANGED <<db, holder, pending, mode, effects, ledger>>

\* The INSERT inside get_or_create: waits for another session's uncommitted
\* INSERT of the same key, and fails on the unique constraint if the row has
\* been committed meanwhile.
CreateInsert(s) ==
    LET c == call[s]
    IN  /\ c.pc = "insert" /\ MayWrite(s, c.row)
        /\ \/ /\ Exists(db[c.row])
              /\ Goto(s, "failed")
              /\ UNCHANGED <<holder, pending, mem>>
           \/ /\ ~Exists(db[c.row])
              /\ Write(s, c.row, ZeroRow)
              /\ mem' = [mem EXCEPT ![s][c.row] = ZeroRow]
              /\ \/ c.op = "lock" /\ Goto(s, "failed")
                 \/ c.op = "credit" /\ NextAttempt(s)
                 \/ c.op \in AdminOps /\ Goto(s, "forupdate")
        /\ UNCHANGED <<db, mode, effects, ledger>>

\* optimistic_lock / _unlock / _settle / _credit: UPDATE ... WHERE version =
\* expected AND guard.  The statement waits for the row, is judged on the
\* newest committed version, and computes from the stored columns.  The ORM
\* applies the same change to the object in memory whatever the row count.
UpdateRow(s) ==
    LET c == call[s]
        r == c.row
        cur == Visible(s, r)
        old == mem[s][r]
        hit == cur.version = old.version /\ Allowed(c.op, cur, c.amt)
    IN  /\ c.pc = "update" /\ MayWrite(s, r)
        /\ mem' = [mem EXCEPT ![s][r] = IF Allowed(c.op, old, c.amt)
                                        THEN Changed(c.op, old, c.amt) ELSE old]
        /\ \/ /\ hit
              /\ Write(s, r, Changed(c.op, cur, c.amt))
              /\ Told(s, r, c.op, c.amt)
              /\ Return(s)
           \/ /\ ~hit
              /\ NextAttempt(s)
              /\ UNCHANGED <<holder, pending, effects>>
        /\ UNCHANGED <<db, mode, ledger>>

-----------------------------------------------------------------------------
(* Pessimistic sessions.                                                   *)

\* Mutant: a plain SELECT.
LockRowUnlocked(s, r) ==
    /\ Exists(Visible(s, r)) /\ MayWrite(s, r)
    /\ mem' = [mem EXCEPT ![s][r] = Loaded(s, r)]
    /\ UNCHANGED <<pending, holder>>

\* SELECT ... FOR UPDATE: waits for the row, then holds it to the end of the
\* transaction.
LockRow(s, r) ==
    /\ Exists(Visible(s, r)) /\ MayWrite(s, r)
    /\ Write(s, r, Visible(s, r))
    /\ mem' = [mem EXCEPT ![s][r] = Loaded(s, r)]

\* get_for_update called by cancel, settlement and refund.
get_for_update(s, r) ==
    /\ mode[s] = "pessimistic" /\ call[s].pc = "idle"
    /\ LockRow(s, r)
    /\ UNCHANGED <<db, mode, call, effects, ledger>>

\* Apply the operation to the loaded object and flush it; a ValueError, an
\* InsufficientBalanceError or check_invariant's RuntimeError fails the session.
ApplyAndFlush(s, op, r, a) ==
    LET old == mem[s][r]
        new == Changed(op, old, a)
    IN  \/ /\ Allowed(op, old, a) /\ check_invariant(new) /\ MayWrite(s, r)
           /\ Write(s, r, Flush(Visible(s, r), old, new))
           /\ mem' = [mem EXCEPT ![s][r] = new]
           /\ Told(s, r, op, a)
           /\ Return(s)
        \/ /\ ~(Allowed(op, old, a) /\ check_invariant(new))
           /\ Goto(s, "failed")
           /\ UNCHANGED <<holder, pending, mem, effects>>

\* lock_pessimistic / unlock_pessimistic / settle_pessimistic /
\* credit_pessimistic on a row this session loaded with get_for_update.
Pessimistic(s, op, r, a) ==
    /\ mode[s] = "pessimistic" /\ call[s].pc = "idle" /\ Exists(mem[s][r])
    /\ WithinBounds(s, r, op, a)
    /\ ApplyAndFlush(s, op, r, a)
    /\ UNCHANGED <<db, mode, ledger>>

\* settle_trade_pessimistic: the taker's locked amount becomes the maker's
\* available amount; one flush for both rows.
settle_trade_pessimistic(s, t, m, a) ==
    LET paid == settle(mem[s][t], a)
        got == credit(mem[s][m], a)
    IN  /\ mode[s] = "pessimistic" /\ call[s].pc = "idle" /\ t # m
        /\ Exists(mem[s][t]) /\ Exists(mem[s][m])
        /\ WithinBounds(s, t, "settle", a) /\ WithinBounds(s, m, "credit", a)
        /\ \/ /\ CanSpend(mem[s][t], a) /\ check_invariant(paid) /\ check_invariant(got)
              /\ MayWrite(s, t) /\ MayWrite(s, m)
              /\ pending' = [pending EXCEPT ![t] = Flush(Visible(s, t), mem[s][t], paid),
                                            ![m] = Flush(Visible(s, m), mem[s][m], got)]
              /\ holder' = [holder EXCEPT ![t] = s, ![m] = s]
              /\ mem' = [mem EXCEPT ![s][t] = paid, ![s][m] = got]
              /\ effects' = [effects EXCEPT ![s][t] = Plus(@, Promise("settle", a)),
                                            ![s][m] = Plus(@, Promise("credit", a))]
              /\ UNCHANGED call
           \/ /\ ~(CanSpend(mem[s][t], a) /\ check_invariant(paid) /\ check_invariant(got))
              /\ Goto(s, "failed")
              /\ UNCHANGED <<holder, pending, mem, effects>>
        /\ UNCHANGED <<db, mode, ledger>>

\* admin_adjust is entered; op says the sign of delta.
admin_adjust(s, op, r, a) ==
    /\ mode[s] = "pessimistic" /\ call[s].pc = "idle"
    /\ \A q \in Rows : ~Exists(mem[s][q])       \* the request's only operation
    /\ WithinBounds(s, r, op, a)
    /\ call' = [call EXCEPT ![s] = [pc |-> "forupdate", op |-> op, row |-> r,
                                    amt |-> a, attempt |-> 1]]
    /\ UNCHANGED <<db, holder, pending, mem, mode, effects, ledger>>

\* Its get_for_update: a missing row is created first (get_or_create).
AdminLock(s) ==
    LET r == call[s].row
    IN  /\ call[s].pc = "forupdate"
        /\ \/ LockRow(s, r) /\ Goto(s, "apply")
           \/ /\ ~Exists(Visible(s, r))
              /\ Goto(s, "create")
              /\ UNCHANGED <<holder, pending, mem>>
        /\ UNCHANGED <<db, mode, effects, ledger>>

\* Its change of total and available, version, check_invariant and flush.
AdminApply(s) ==
    /\ call[s].pc = "apply"
    /\ ApplyAndFlush(s, call[s].op, call[s].row, call[s].amt)
    /\ UNCHANGED <<db, mode, ledger>>

-----------------------------------------------------------------------------
(* End of a session.                                                       *)

Close(s) ==
    /\ pending' = [r \in Rows |-> IF holder[r] = s THEN db'[r] ELSE pending[r]]
    /\ holder' = [r \in Rows |-> IF holder[r] = s THEN NoSession ELSE holder[r]]
    /\ mem' = [mem EXCEPT ![s] = [r \in Rows |-> NoRow]]
    /\ mode' = [mode EXCEPT ![s] = "none"]
    /\ call' = [call EXCEPT ![s] = Idle]
    /\ effects' = [effects EXCEPT ![s] = [r \in Rows |-> NoEntry]]

Commit(s) ==
    /\ mode[s] # "none" /\ call[s].pc = "idle"
    /\ db' = [r \in Rows |-> IF holder[r] = s THEN pending[r] ELSE db[r]]
    /\ ledger' = [r \in Rows |-> Plus(ledger[r], effects[s][r])]
    /\ Close(s)

\* An exception leaves the `async with`, the process dies, the connection
\* drops, or PostgreSQL picks the session as the victim of a deadlock.
Rollback(s) ==
    /\ mode[s] # "none"
    /\ UNCHANGED <<db, ledger>>
    /\ Close(s)

Step(s) ==
    \/ SelectRow(s)
    \/ CreateSelect(s)
    \/ CreateInsert(s)
    \/ UpdateRow(s)
    \/ AdminLock(s)
    \/ AdminApply(s)
    \/ Commit(s)
    \/ Rollback(s)

Next ==
    \E s \in Sessions :
        \/ Step(s)
        \/ \E m \in {"optimistic", "pessimistic"} : Begin(s, m)
        \/ \E op \in OptimisticOps, r \in Rows, a \in Amounts :
               CallOptimistic(s, op, r, a) \/ Pessimistic(s, op, r, a)
        \/ \E r \in Rows : get_for_update(s, r)
        \/ \E t, m \in Rows, a \in Amounts : settle_trade_pessimistic(s, t, m, a)
        \/ \E op \in AdminOps, r \in Rows, a \in Amounts : admin_adjust(s, op, r, a)

Spec == Init /\ [][Next]_vars

-----------------------------------------------------------------------------
(* Properties.                                                             *)

PCs == {"idle", "select", "create", "insert", "update", "forupdate", "apply", "failed"}

Call == [pc: PCs, op: Ops, row: Rows, amt: Nat, attempt: 0 .. MaxRetries]

\* Every row, object and call has its type; no operation is tried more than
\* MAX_OPTIMISTIC_RETRIES times.
TypeOK ==
    /\ db \in [Rows -> Row]
    /\ holder \in [Rows -> Sessions \cup {NoSession}]
    /\ pending \in [Rows -> Row]
    /\ mem \in [Sessions -> [Rows -> Row]]
    /\ mode \in [Sessions -> {"none", "optimistic", "pessimistic"}]
    /\ call \in [Sessions -> Call]
    /\ effects \in [Sessions -> [Rows -> Entry]]
    /\ ledger \in [Rows -> Entry]

Covered(b) == b.locked >= 0 /\ b.available >= 0

\* No committed balance is ever overdrawn: neither what is locked nor what is
\* available goes below zero, whatever the sessions interleave, retry, fail or
\* roll back.
NoOverdraft == \A r \in Rows : Covered(db[r])

\* models/balance.py's INVARIANT, total == locked + available, of every
\* committed row.
BalanceInvariant == \A r \in Rows : check_invariant(db[r])

\* No lost update and no double application: a committed row holds exactly the
\* sum of what the committed transactions were told had been done to it.
NoLostUpdate == \A r \in Rows : Amounts3(db[r]) = ledger[r]

\* "Bumps version on every UPDATE": a committed change of the amounts of a row
\* always comes with a higher version, so an optimistic writer notices it.
VersionDetectsChange ==
    [][\A r \in Rows : Amounts3(db'[r]) # Amounts3(db[r]) => db'[r].version > db[r].version]_vars

=============================================================================
