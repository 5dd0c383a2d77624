------------------------ MODULE BalanceServiceProofs ------------------------
(***************************************************************************)
(* Theorems about BalanceService for every set of rows, sessions and       *)
(* amounts.                                                                *)
(***************************************************************************)
EXTENDS BalanceService, TLAPS

-----------------------------------------------------------------------------
(* The arithmetic of one row.                                              *)

LEMMA ConstantRows == NoRow \in Row /\ ZeroRow \in Row /\ NoEntry \in Entry
BY DEF NoRow, ZeroRow, NoEntry, Row, Entry

LEMMA ChangedType ==
    ASSUME NEW op \in Ops, NEW b \in Row, NEW a \in Nat
    PROVE  Changed(op, b, a) \in Row
<1>1. /\ lock(b, a) \in Row /\ unlock(b, a) \in Row /\ settle(b, a) \in Row
      /\ credit(b, a) \in Row /\ debit(b, a) \in Row
  BY DEF Row, Move, lock, unlock, settle, credit, debit
<1> QED
  BY <1>1 DEF Ops, OptimisticOps, AdminOps, Changed

LEMMA FlushType ==
    ASSUME NEW cur \in Row, NEW old \in Row, NEW new \in Row
    PROVE  Flush(cur, old, new) \in Row
BY DEF Row, Flush

LEMMA PromiseType ==
    ASSUME NEW op \in Ops, NEW a \in Nat, NEW e \in Entry
    PROVE  Plus(e, Promise(op, a)) \in Entry
BY DEF Ops, OptimisticOps, AdminOps, Entry, Promise, Plus

LEMMA PlusType ==
    ASSUME NEW e \in Entry, NEW f \in Entry
    PROVE  Plus(e, f) \in Entry
BY DEF Entry, Plus

LEMMA IdleType == Idle \in Call
<1>1. (CHOOSE r \in Rows : TRUE) \in Rows
  BY RowAssumption
<1> QED
  BY <1>1, RetryAssumption DEF Idle, Call, PCs, Ops, OptimisticOps, AdminOps

-----------------------------------------------------------------------------
(* Type correctness.                                                       *)

LEMMA ViewType ==
    ASSUME TypeOK, NEW s \in Sessions, NEW r \in Rows
    PROVE  Visible(s, r) \in Row /\ Loaded(s, r) \in Row
BY DEF TypeOK, Visible, Loaded

LEMMA InitType == Init => TypeOK
<1> SUFFICES ASSUME Init PROVE TypeOK
  OBVIOUS
<1>1. db \in [Rows -> Row]
  BY ConstantRows DEF Init
<1> QED
  BY <1>1, ConstantRows, IdleType DEF Init, TypeOK


LEMMA GotoType ==
    ASSUME TypeOK, NEW s \in Sessions, NEW l \in PCs, Goto(s, l)
    PROVE  call' \in [Sessions -> Call]
<1>1. call[s] \in Call /\ call \in [Sessions -> Call] /\ call' = [call EXCEPT ![s].pc = l]
  BY DEF TypeOK, Goto
<1>2. PICK c : c = [call[s] EXCEPT !.pc = l]
  OBVIOUS
<1>3. c \in Call
  BY <1>1, <1>2 DEF Call
<1>4. call' = [call EXCEPT ![s] = c]
  BY ONLY <1>1, <1>2
<1> QED
  BY ONLY <1>1, <1>3, <1>4

LEMMA ReturnType ==
    ASSUME TypeOK, NEW s \in Sessions, Return(s)
    PROVE  call' \in [Sessions -> Call]
BY IdleType DEF TypeOK, Return

LEMMA NextAttemptType ==
    ASSUME TypeOK, NEW s \in Sessions, NextAttempt(s)
    PROVE  call' \in [Sessions -> Call]
<1> DEFINE n == IF call[s].attempt < MaxRetries THEN call[s].attempt + 1 ELSE call[s].attempt
           l == IF call[s].attempt < MaxRetries THEN "select" ELSE "failed"
<1>1. call \in [Sessions -> Call] /\ call[s] \in Call /\ call[s].attempt \in 0 .. MaxRetries
  BY DEF TypeOK, Call
<1>2. n \in 0 .. MaxRetries /\ l \in PCs
  BY <1>1, RetryAssumption DEF PCs
<1>3. call' = [call EXCEPT ![s].pc = l, ![s].attempt = n]
  BY DEF NextAttempt
<1> HIDE DEF n, l
<1> QED
  BY <1>1, <1>2, <1>3 DEF Call

LEMMA WriteType ==
    ASSUME TypeOK, NEW s \in Sessions, NEW r \in Rows, NEW b \in Row, Write(s, r, b)
    PROVE  pending' \in [Rows -> Row] /\ holder' \in [Rows -> Sessions \cup {NoSession}]
BY DEF TypeOK, Write

LEMMA ToldType ==
    ASSUME TypeOK, NEW s \in Sessions, NEW r \in Rows, NEW op \in Ops, NEW a \in Nat,
           Told(s, r, op, a)
    PROVE  effects' \in [Sessions -> [Rows -> Entry]]
BY PromiseType DEF TypeOK, Told

LEMMA CallFields ==
    ASSUME TypeOK, NEW s \in Sessions
    PROVE  /\ call[s].pc \in PCs /\ call[s].op \in Ops /\ call[s].row \in Rows
           /\ call[s].amt \in Nat /\ call[s].attempt \in 0 .. MaxRetries
BY DEF TypeOK, Call

LEMMA ApplyType ==
    ASSUME TypeOK, NEW s \in Sessions, NEW op \in Ops, NEW r \in Rows, NEW a \in Nat,
           ApplyAndFlush(s, op, r, a)
    PROVE  /\ pending' \in [Rows -> Row] /\ holder' \in [Rows -> Sessions \cup {NoSession}]
           /\ mem' \in [Sessions -> [Rows -> Row]] /\ call' \in [Sessions -> Call]
           /\ effects' \in [Sessions -> [Rows -> Entry]]
<1> DEFINE old == mem[s][r]
           new == Changed(op, old, a)
<1>1. old \in Row /\ new \in Row
  BY ChangedType DEF TypeOK
<1>2. Flush(Visible(s, r), old, new) \in Row
  BY <1>1, ViewType, FlushType
<1>3. CASE /\ Write(s, r, Flush(Visible(s, r), old, new)) /\ mem' = [mem EXCEPT ![s][r] = new]
           /\ Told(s, r, op, a) /\ Return(s)
  <2> HIDE DEF old, new
  <2>1. mem' \in [Sessions -> [Rows -> Row]]
    BY <1>1, <1>3 DEF TypeOK
  <2> QED
    BY <1>2, <1>3, <2>1, WriteType, ToldType, ReturnType
<1>4. CASE Goto(s, "failed") /\ UNCHANGED <<holder, pending, mem, effects>>
  <2>1. call' \in [Sessions -> Call]
    BY <1>4, GotoType DEF PCs
  <2> QED
    BY <1>4, <2>1 DEF TypeOK
<1> QED
  BY <1>3, <1>4 DEF ApplyAndFlush

LEMMA LockRowType ==
    ASSUME TypeOK, NEW s \in Sessions, NEW r \in Rows, LockRow(s, r)
    PROVE  /\ pending' \in [Rows -> Row] /\ holder' \in [Rows -> Sessions \cup {NoSession}]
           /\ mem' \in [Sessions -> [Rows -> Row]]
<1>1. Visible(s, r) \in Row /\ Loaded(s, r) \in Row
  BY ViewType
<1>2. Write(s, r, Visible(s, r)) /\ mem' = [mem EXCEPT ![s][r] = Loaded(s, r)]
  BY DEF LockRow
<1>3. mem' \in [Sessions -> [Rows -> Row]]
  BY <1>1, <1>2 DEF TypeOK
<1> QED
  BY <1>1, <1>2, <1>3, WriteType

LEMMA StepType == TypeOK /\ [Next]_vars => TypeOK'
<1> SUFFICES ASSUME TypeOK, [Next]_vars PROVE TypeOK'
  OBVIOUS
<1>1. CASE UNCHANGED vars
  BY <1>1 DEF TypeOK, vars
<1>2. ASSUME NEW s \in Sessions, NEW m \in {"optimistic", "pessimistic"}, Begin(s, m)
      PROVE  TypeOK'
  BY <1>2 DEF Begin, TypeOK
<1>3. ASSUME NEW s \in Sessions, NEW op \in OptimisticOps, NEW r \in Rows, NEW a \in Amounts,
             CallOptimistic(s, op, r, a)
      PROVE  TypeOK'
  <2>1. call' \in [Sessions -> Call]
    BY <1>3, AmountAssumption, RetryAssumption DEF CallOptimistic, TypeOK, Call, PCs, Ops
  <2> QED
    BY <1>3, <2>1 DEF CallOptimistic, TypeOK
<1>4. ASSUME NEW s \in Sessions, SelectRow(s) PROVE TypeOK'
  <2>1. call' \in [Sessions -> Call]
    BY <1>4, GotoType DEF SelectRow, PCs
  <2>2. mem' \in [Sessions -> [Rows -> Row]]
    BY <1>4, CallFields, ViewType DEF SelectRow, TypeOK
  <2> QED
    BY <1>4, <2>1, <2>2 DEF SelectRow, TypeOK
<1>5. ASSUME NEW s \in Sessions, CreateSelect(s) PROVE TypeOK'
  <2>1. call' \in [Sessions -> Call]
    BY <1>5, GotoType, NextAttemptType DEF CreateSelect, PCs
  <2>2. mem' \in [Sessions -> [Rows -> Row]]
    BY <1>5, CallFields, ViewType DEF CreateSelect, TypeOK
  <2> QED
    BY <1>5, <2>1, <2>2 DEF CreateSelect, TypeOK
<1>6. ASSUME NEW s \in Sessions, CreateInsert(s) PROVE TypeOK'
  <2>1. call' \in [Sessions -> Call]
    BY <1>6, GotoType, NextAttemptType DEF CreateInsert, PCs
  <2>2. /\ mem' \in [Sessions -> [Rows -> Row]] /\ pending' \in [Rows -> Row]
        /\ holder' \in [Rows -> Sessions \cup {NoSession}]
    <3>1. CASE UNCHANGED <<holder, pending, mem>>
      BY <3>1 DEF TypeOK
    <3>2. CASE /\ Write(s, call[s].row, ZeroRow)
               /\ mem' = [mem EXCEPT ![s][call[s].row] = ZeroRow]
      <4>1. mem' \in [Sessions -> [Rows -> Row]]
        BY <3>2, CallFields, ConstantRows DEF TypeOK
      <4> QED
        BY <3>2, <4>1, CallFields, ConstantRows, WriteType
    <3> QED
      BY <1>6, <3>1, <3>2 DEF CreateInsert
  <2> QED
    BY <1>6, <2>1, <2>2 DEF CreateInsert, TypeOK
<1>7. ASSUME NEW s \in Sessions, UpdateRow(s) PROVE TypeOK'
  <2> DEFINE c == call[s]
             cur == Visible(s, c.row)
             old == mem[s][c.row]
  <2>0. c.op \in Ops /\ c.row \in Rows /\ c.amt \in Nat /\ cur \in Row /\ old \in Row
    BY CallFields, ViewType DEF TypeOK
  <2>1. Changed(c.op, cur, c.amt) \in Row /\ Changed(c.op, old, c.amt) \in Row
    BY <2>0, ChangedType
  <2>2. mem' \in [Sessions -> [Rows -> Row]]
    BY <1>7, <2>0, <2>1 DEF UpdateRow, TypeOK
  <2>3. \/ Write(s, c.row, Changed(c.op, cur, c.amt)) /\ Told(s, c.row, c.op, c.amt) /\ Return(s)
        \/ NextAttempt(s) /\ UNCHANGED <<holder, pending, effects>>
    BY <1>7 DEF UpdateRow
  <2>4. /\ call' \in [Sessions -> Call] /\ pending' \in [Rows -> Row]
        /\ holder' \in [Rows -> Sessions \cup {NoSession}]
        /\ effects' \in [Sessions -> [Rows -> Entry]]
    <3>1. CASE Write(s, c.row, Changed(c.op, cur, c.amt)) /\ Told(s, c.row, c.op, c.amt) /\ Return(s)
      BY <3>1, <2>0, <2>1, WriteType, ToldType, ReturnType
    <3>2. CASE NextAttempt(s) /\ UNCHANGED <<holder, pending, effects>>
      BY <3>2, NextAttemptType DEF TypeOK
    <3> QED
      BY <2>3, <3>1, <3>2
  <2> QED
    BY <1>7, <2>2, <2>4 DEF UpdateRow, TypeOK
<1>8. ASSUME NEW s \in Sessions, NEW r \in Rows, get_for_update(s, r) PROVE TypeOK'
  BY <1>8, LockRowType DEF get_for_update, TypeOK
<1>9. ASSUME NEW s \in Sessions, NEW op \in OptimisticOps, NEW r \in Rows, NEW a \in Amounts,
             Pessimistic(s, op, r, a)
      PROVE  TypeOK'
  <2>1. op \in Ops /\ a \in Nat /\ ApplyAndFlush(s, op, r, a)
    BY <1>9, AmountAssumption DEF Pessimistic, Ops
  <2> QED
    BY <1>9, <2>1, ApplyType DEF Pessimistic, TypeOK
<1>10. ASSUME NEW s \in Sessions, NEW t \in Rows, NEW m \in Rows, NEW a \in Amounts,
              settle_trade_pessimistic(s, t, m, a)
       PROVE  TypeOK'
  <2> DEFINE paid == settle(mem[s][t], a)
             got == credit(mem[s][m], a)
             paidRow == Flush(Visible(s, t), mem[s][t], paid)
             gotRow == Flush(Visible(s, m), mem[s][m], got)
  <2>0. a \in Nat /\ mem[s][t] \in Row /\ mem[s][m] \in Row
    BY AmountAssumption DEF TypeOK
  <2>1. paid \in Row /\ got \in Row
    BY <2>0 DEF settle, credit, Move, Row
  <2>2. paidRow \in Row /\ gotRow \in Row
    BY <2>0, <2>1, ViewType, FlushType
  <2>3. /\ Plus(effects[s][t], Promise("settle", a)) \in Entry
        /\ Plus(effects[s][m], Promise("credit", a)) \in Entry
    BY <2>0, PromiseType DEF TypeOK, Ops, OptimisticOps
  <2>4. CASE /\ t # m
             /\ pending' = [pending EXCEPT ![t] = paidRow, ![m] = gotRow]
             /\ holder' = [holder EXCEPT ![t] = s, ![m] = s]
             /\ mem' = [mem EXCEPT ![s][t] = paid, ![s][m] = got]
             /\ effects' = [effects EXCEPT ![s][t] = Plus(@, Promise("settle", a)),
                                           ![s][m] = Plus(@, Promise("credit", a))]
             /\ UNCHANGED <<call, db, mode, ledger>>
    <3> HIDE DEF paid, got, paidRow, gotRow
    <3>1. pending' \in [Rows -> Row] /\ holder' \in [Rows -> Sessions \cup {NoSession}]
      BY <2>2, <2>4 DEF TypeOK
    <3>2. mem' \in [Sessions -> [Rows -> Row]]
      BY <2>1, <2>4 DEF TypeOK
    <3>3. effects' \in [Sessions -> [Rows -> Entry]]
      BY <2>3, <2>4 DEF TypeOK
    <3> QED
      BY <2>4, <3>1, <3>2, <3>3 DEF TypeOK
  <2>5. CASE Goto(s, "failed") /\ UNCHANGED <<holder, pending, mem, effects, db, mode, ledger>>
    <3>1. call' \in [Sessions -> Call]
      BY <2>5, GotoType DEF PCs
    <3> QED
      BY <2>5, <3>1 DEF TypeOK
  <2> QED
    BY <1>10, <2>4, <2>5 DEF settle_trade_pessimistic
<1>11. ASSUME NEW s \in Sessions, NEW op \in AdminOps, NEW r \in Rows, NEW a \in Amounts,
              admin_adjust(s, op, r, a)
       PROVE  TypeOK'
  <2>1. call' \in [Sessions -> Call]
    BY <1>11, AmountAssumption, RetryAssumption DEF admin_adjust, TypeOK, Call, PCs, Ops
  <2> QED
    BY <1>11, <2>1 DEF admin_adjust, TypeOK
<1>12. ASSUME NEW s \in Sessions, AdminLock(s) PROVE TypeOK'
  <2>1. call' \in [Sessions -> Call]
    BY <1>12, GotoType DEF AdminLock, PCs
  <2> QED
    BY <1>12, <2>1, CallFields, LockRowType DEF AdminLock, TypeOK
<1>13. ASSUME NEW s \in Sessions, AdminApply(s) PROVE TypeOK'
  BY <1>13, CallFields, ApplyType DEF AdminApply, TypeOK
<1>14. ASSUME NEW s \in Sessions, Close(s), db' \in [Rows -> Row], ledger' \in [Rows -> Entry]
       PROVE  TypeOK'
  BY <1>14, ConstantRows, IdleType DEF Close, TypeOK
<1>15. ASSUME NEW s \in Sessions, Commit(s) PROVE TypeOK'
  <2>1. db' \in [Rows -> Row]
    BY <1>15 DEF Commit, TypeOK
  <2>2. ledger' \in [Rows -> Entry]
    BY <1>15, PlusType DEF Commit, TypeOK
  <2> QED
    BY <1>14, <1>15, <2>1, <2>2 DEF Commit
<1>16. ASSUME NEW s \in Sessions, Rollback(s) PROVE TypeOK'
  BY <1>14, <1>16 DEF Rollback, TypeOK
<1> QED
  BY <1>1, <1>2, <1>3, <1>4, <1>5, <1>6, <1>7, <1>8, <1>9, <1>10, <1>11, <1>12, <1>13, <1>15,
     <1>16 DEF Next, Step

\* The rows, the identity maps, the calls and the two histories always have
\* their types.
THEOREM TypeCorrect == Spec => []TypeOK
BY InitType, StepType, PTL DEF Spec

-----------------------------------------------------------------------------
(* No overdraft.  NoOverdraft is not inductive: it needs the same of every *)
(* uncommitted row and of every object in an identity map, because a flush *)
(* mixes columns of the two.                                               *)

CoveredEverywhere ==
    \A r \in Rows : /\ Covered(db[r]) /\ Covered(pending[r])
                    /\ \A s \in Sessions : Covered(mem[s][r])

LEMMA CoveredConstants == Covered(NoRow) /\ Covered(ZeroRow)
BY DEF Covered, NoRow, ZeroRow

LEMMA ChangedCovered ==
    ASSUME NEW op \in Ops, NEW b \in Row, NEW a \in Nat, Covered(b), Allowed(op, b, a)
    PROVE  Covered(Changed(op, b, a))
<1> USE DEF Row, Covered, Move, CanLock, CanSpend
<1>1. CASE op = "lock"
  BY <1>1 DEF Allowed, Changed, lock
<1>2. CASE op = "unlock"
  BY <1>2 DEF Allowed, Changed, unlock
<1>3. CASE op = "settle"
  BY <1>3 DEF Allowed, Changed, settle
<1>4. CASE op \in {"credit", "admin_credit"}
  BY <1>4 DEF Changed, credit
<1>5. CASE op = "admin_debit"
  BY <1>5 DEF Allowed, Changed, debit
<1> QED
  BY <1>1, <1>2, <1>3, <1>4, <1>5 DEF Ops, OptimisticOps, AdminOps

LEMMA FlushCovered ==
    ASSUME NEW cur \in Row, NEW old \in Row, NEW new \in Row, Covered(cur), Covered(new)
    PROVE  Covered(Flush(cur, old, new))
BY DEF Row, Covered, Flush

LEMMA ViewCovered ==
    ASSUME TypeOK, CoveredEverywhere, NEW s \in Sessions, NEW r \in Rows
    PROVE  Covered(Visible(s, r)) /\ Covered(Loaded(s, r))
BY DEF CoveredEverywhere, Visible, Loaded

\* One row written and one object changed, both covered.
LEMMA WriteCovered ==
    ASSUME TypeOK, CoveredEverywhere, NEW s \in Sessions, NEW r \in Rows,
           NEW b, NEW x, Covered(b), Covered(x),
           pending' = [pending EXCEPT ![r] = b], mem' = [mem EXCEPT ![s][r] = x], UNCHANGED db
    PROVE  CoveredEverywhere'
BY DEF TypeOK, CoveredEverywhere

LEMMA LoadCovered ==
    ASSUME TypeOK, CoveredEverywhere, NEW s \in Sessions, NEW r \in Rows, NEW x, Covered(x),
           mem' = [mem EXCEPT ![s][r] = x], UNCHANGED <<db, pending>>
    PROVE  CoveredEverywhere'
BY DEF TypeOK, CoveredEverywhere

LEMMA ApplyCovered ==
    ASSUME TypeOK, CoveredEverywhere, NEW s \in Sessions, NEW op \in Ops, NEW r \in Rows,
           NEW a \in Nat, ApplyAndFlush(s, op, r, a), UNCHANGED db
    PROVE  CoveredEverywhere'
<1> DEFINE old == mem[s][r]
           new == Changed(op, old, a)
           row == Flush(Visible(s, r), old, new)
<1>1. CASE Allowed(op, old, a) /\ Write(s, r, row) /\ mem' = [mem EXCEPT ![s][r] = new]
  <2>1. old \in Row /\ Visible(s, r) \in Row /\ Covered(old) /\ Covered(Visible(s, r))
    BY ViewType, ViewCovered DEF TypeOK, CoveredEverywhere
  <2>2. new \in Row /\ Covered(new)
    BY <1>1, <2>1, ChangedType, ChangedCovered
  <2>3. Covered(row)
    BY <2>1, <2>2, FlushCovered
  <2> HIDE DEF old, new, row
  <2> QED
    BY <1>1, <2>2, <2>3, WriteCovered DEF Write
<1>2. CASE UNCHANGED <<pending, mem>>
  BY <1>2 DEF CoveredEverywhere
<1> QED
  BY <1>1, <1>2 DEF ApplyAndFlush

LEMMA LockRowCovered ==
    ASSUME TypeOK, CoveredEverywhere, NEW s \in Sessions, NEW r \in Rows, LockRow(s, r),
           UNCHANGED db
    PROVE  CoveredEverywhere'
BY ViewCovered, WriteCovered DEF LockRow, Write

LEMMA StepCovered == TypeOK /\ CoveredEverywhere /\ [Next]_vars => CoveredEverywhere'
<1> SUFFICES ASSUME TypeOK, CoveredEverywhere, [Next]_vars PROVE CoveredEverywhere'
  OBVIOUS
<1>1. CASE UNCHANGED <<db, pending, mem>>
  BY <1>1 DEF CoveredEverywhere
<1>2. ASSUME NEW s \in Sessions, SelectRow(s) \/ CreateSelect(s) PROVE CoveredEverywhere'
  BY <1>2, CallFields, ViewCovered, LoadCovered DEF SelectRow, CreateSelect
<1>3. ASSUME NEW s \in Sessions, CreateInsert(s) PROVE CoveredEverywhere'
  BY <1>1, <1>3, CallFields, CoveredConstants, WriteCovered DEF CreateInsert, Write
<1>4. ASSUME NEW s \in Sessions, UpdateRow(s) PROVE CoveredEverywhere'
  <2> DEFINE c == call[s]
             cur == Visible(s, c.row)
             old == mem[s][c.row]
             obj == IF Allowed(c.op, old, c.amt) THEN Changed(c.op, old, c.amt) ELSE old
  <2>1. /\ c.op \in Ops /\ c.row \in Rows /\ c.amt \in Nat /\ cur \in Row /\ old \in Row
        /\ Covered(cur) /\ Covered(old)
    BY CallFields, ViewType, ViewCovered DEF TypeOK, CoveredEverywhere
  <2>2. Covered(obj)
    BY <2>1, ChangedCovered
  <2>3. Allowed(c.op, cur, c.amt) => Covered(Changed(c.op, cur, c.amt))
    BY <2>1, ChangedCovered
  <2>4. /\ mem' = [mem EXCEPT ![s][c.row] = obj] /\ UNCHANGED db
        /\ \/ Allowed(c.op, cur, c.amt) /\ pending' = [pending EXCEPT ![c.row] = Changed(c.op, cur, c.amt)]
           \/ UNCHANGED pending
    BY <1>4 DEF UpdateRow, Write
  <2> HIDE DEF obj, cur, old
  <2> QED
    BY <2>1, <2>2, <2>3, <2>4, WriteCovered, LoadCovered
<1>5. ASSUME NEW s \in Sessions, NEW r \in Rows, get_for_update(s, r) PROVE CoveredEverywhere'
  BY <1>5, LockRowCovered DEF get_for_update
<1>6. ASSUME NEW s \in Sessions, NEW op \in OptimisticOps, NEW r \in Rows, NEW a \in Amounts,
             Pessimistic(s, op, r, a)
      PROVE  CoveredEverywhere'
  BY <1>6, AmountAssumption, ApplyCovered DEF Pessimistic, Ops
<1>7. ASSUME NEW s \in Sessions, NEW t \in Rows, NEW m \in Rows, NEW a \in Amounts,
             settle_trade_pessimistic(s, t, m, a)
      PROVE  CoveredEverywhere'
  <2> DEFINE paid == settle(mem[s][t], a)
             got == credit(mem[s][m], a)
             paidRow == Flush(Visible(s, t), mem[s][t], paid)
             gotRow == Flush(Visible(s, m), mem[s][m], got)
  <2>1. CASE /\ CanSpend(mem[s][t], a) /\ UNCHANGED db
             /\ pending' = [pending EXCEPT ![t] = paidRow, ![m] = gotRow]
             /\ mem' = [mem EXCEPT ![s][t] = paid, ![s][m] = got]
    <3>0. a \in Nat /\ mem[s][t] \in Row /\ mem[s][m] \in Row
          /\ Covered(mem[s][t]) /\ Covered(mem[s][m])
      BY AmountAssumption DEF TypeOK, CoveredEverywhere
    <3>1. paid \in Row /\ got \in Row /\ Covered(paid) /\ Covered(got)
      BY <2>1, <3>0 DEF settle, credit, Move, Row, Covered, CanSpend
    <3>2. Covered(paidRow) /\ Covered(gotRow)
      BY <3>0, <3>1, ViewType, ViewCovered, FlushCovered
    <3> HIDE DEF paid, got, paidRow, gotRow
    <3> QED
      BY <2>1, <3>1, <3>2 DEF TypeOK, CoveredEverywhere
  <2>2. CASE UNCHANGED <<pending, mem, db>>
    BY <2>2 DEF CoveredEverywhere
  <2> QED
    BY <1>7, <2>1, <2>2 DEF settle_trade_pessimistic
<1>8. ASSUME NEW s \in Sessions, AdminLock(s) PROVE CoveredEverywhere'
  BY <1>1, <1>8, CallFields, LockRowCovered DEF AdminLock
<1>9. ASSUME NEW s \in Sessions, AdminApply(s) PROVE CoveredEverywhere'
  BY <1>9, CallFields, ApplyCovered DEF AdminApply
<1>10. ASSUME NEW s \in Sessions, Commit(s) \/ Rollback(s) PROVE CoveredEverywhere'
  <2>1. \A r \in Rows : Covered(db'[r])
    BY <1>10 DEF Commit, Rollback, CoveredEverywhere
  <2>2. Close(s)
    BY <1>10 DEF Commit, Rollback
  <2> QED
    BY <2>1, <2>2, CoveredConstants DEF Close, TypeOK, CoveredEverywhere
<1> QED
  BY <1>1, <1>2, <1>3, <1>4, <1>5, <1>6, <1>7, <1>8, <1>9, <1>10
     DEF Next, Step, vars, Begin, CallOptimistic, admin_adjust

\* The guards of the UPDATEs and of the pessimistic helpers keep every committed
\* balance at or above zero, however the sessions interleave, also when
\* admin_adjust works on an object that has become stale.
THEOREM NeverOverdrawn == Spec => []NoOverdraft
<1>1. Init => CoveredEverywhere
  <2> SUFFICES ASSUME Init, NEW r \in Rows
               PROVE  Covered(db[r]) /\ \A s \in Sessions : Covered(mem[s][r])
    BY DEF Init, CoveredEverywhere
  <2>1. db[r] \in {NoRow, ZeroRow} /\ \A s \in Sessions : mem[s][r] = NoRow
    BY DEF Init
  <2> QED
    BY <2>1, CoveredConstants
<1>2. CoveredEverywhere => NoOverdraft
  BY DEF CoveredEverywhere, NoOverdraft
<1> QED
  BY <1>1, <1>2, TypeCorrect, StepCovered, PTL DEF Spec

-----------------------------------------------------------------------------
(* The invariant total = locked + available, no lost update, and versions  *)
(* that tell, as long as no row appears between the two reads of           *)
(* admin_adjust (~LateRow).                                                *)
(*                                                                         *)
(* The argument is the locking discipline: whoever changes a row holds it, *)
(* and an object a pessimistic session has loaded is the row as it stands. *)

\* Where a call may be, in which kind of session, and what it has loaded.
CallOK(s) ==
    /\ mode[s] = "none" => call[s].pc = "idle" /\ \A r \in Rows : ~Exists(mem[s][r])
    /\ call[s].pc \in {"select", "update"} => mode[s] = "optimistic" /\ call[s].op \in OptimisticOps
    /\ call[s].pc \in {"create", "insert"} =>
          \/ mode[s] = "optimistic" /\ call[s].op \in OptimisticOps
          \/ mode[s] = "pessimistic" /\ call[s].op \in AdminOps
    /\ call[s].pc \in {"forupdate", "apply"} => mode[s] = "pessimistic" /\ call[s].op \in AdminOps
    /\ call[s].pc \in {"update", "apply"} => Exists(mem[s][call[s].row])
    /\ call[s].pc = "insert" => holder[call[s].row] # s

CallInv == \A s \in Sessions : CallOK(s)

\* What the uncommitted version b of a row may be, given its committed version.
Follows(b, d) ==
    /\ check_invariant(b)
    /\ b.version >= d.version
    /\ Amounts3(b) # Amounts3(d) => b.version > d.version

RowInv ==
    \A r \in Rows :
        /\ check_invariant(db[r])
        /\ ~Exists(db[r]) => db[r] = NoRow
        /\ holder[r] = NoSession => pending[r] = db[r]
        /\ holder[r] # NoSession => Exists(pending[r])
        /\ Follows(pending[r], db[r])

\* A pessimistic session has what it loaded, and its objects are current.
ObjectInv ==
    \A s \in Sessions, r \in Rows :
        mode[s] = "pessimistic" /\ Exists(mem[s][r]) => holder[r] = s /\ mem[s][r] = pending[r]

\* The two histories agree with the rows.
LedgerInv ==
    \A r \in Rows :
        /\ ledger[r] = Amounts3(db[r])
        /\ \A s \in Sessions :
              IF holder[r] = s THEN Amounts3(pending[r]) = Plus(ledger[r], effects[s][r])
                               ELSE effects[s][r] = NoEntry

Inv == TypeOK /\ CallInv /\ RowInv /\ ObjectInv /\ LedgerInv

LEMMA Arithmetic ==
    ASSUME NEW op \in Ops, NEW b \in Row, NEW a \in Nat
    PROVE  /\ Amounts3(Changed(op, b, a)) = Plus(Amounts3(b), Promise(op, a))
           /\ check_invariant(b) => check_invariant(Changed(op, b, a))
           /\ Changed(op, b, a).version = b.version + 1
<1> USE DEF Row, Move, Amounts3, Plus, check_invariant
<1>1. CASE op = "lock"
  BY <1>1 DEF Changed, Promise, lock
<1>2. CASE op = "unlock"
  BY <1>2 DEF Changed, Promise, unlock
<1>3. CASE op = "settle"
  BY <1>3 DEF Changed, Promise, settle
<1>4. CASE op \in {"credit", "admin_credit"}
  BY <1>4 DEF Changed, Promise, credit
<1>5. CASE op = "admin_debit"
  BY <1>5 DEF Changed, Promise, debit
<1> QED
  BY <1>1, <1>2, <1>3, <1>4, <1>5 DEF Ops, OptimisticOps, AdminOps

LEMMA PromiseEntry ==
    ASSUME NEW op \in Ops, NEW a \in Nat
    PROVE  Promise(op, a) \in Entry
BY DEF Ops, OptimisticOps, AdminOps, Entry, Promise

LEMMA PlusAssociative ==
    ASSUME NEW e \in Entry, NEW f \in Entry, NEW g \in Entry
    PROVE  Plus(Plus(e, f), g) = Plus(e, Plus(f, g))
BY DEF Entry, Plus

LEMMA PlusNothing ==
    ASSUME NEW e \in Entry
    PROVE  Plus(e, NoEntry) = e
BY DEF Entry, Plus, NoEntry

LEMMA AmountsType ==
    ASSUME NEW b \in Row
    PROVE  Amounts3(b) \in Entry
BY DEF Row, Entry, Amounts3

LEMMA FlushCurrent ==
    ASSUME NEW b \in Row, NEW new \in Row
    PROVE  Flush(b, b, new) = new
BY DEF Row, Flush

\* What a session that may write a row sees of it, and owes for it.
LEMMA WriterView ==
    ASSUME Inv, NEW s \in Sessions, NEW r \in Rows, MayWrite(s, r)
    PROVE  /\ Visible(s, r) = pending[r]
           /\ Amounts3(pending[r]) = Plus(ledger[r], effects[s][r])
<1>1. CASE holder[r] = s
  BY <1>1 DEF Inv, LedgerInv, Visible
<1>2. CASE holder[r] = NoSession
  <2>1. pending[r] = db[r] /\ effects[s][r] = NoEntry /\ ledger[r] = Amounts3(db[r])
    BY <1>2, SessionAssumption DEF Inv, RowInv, LedgerInv
  <2>2. Visible(s, r) = db[r] /\ ledger[r] \in Entry
    BY <1>2, SessionAssumption DEF Visible, Inv, TypeOK
  <2> QED
    BY <2>1, <2>2, PlusNothing
<1> QED
  BY <1>1, <1>2 DEF MayWrite

\* An object a pessimistic session gets from a row it may write is the row.
LEMMA LoadedIsCurrent ==
    ASSUME Inv, NEW s \in Sessions, NEW r \in Rows, MayWrite(s, r), mode[s] = "pessimistic"
    PROVE  Loaded(s, r) = pending[r] /\ (Exists(mem[s][r]) => mem[s][r] = pending[r])
BY WriterView DEF Loaded, Inv, ObjectInv

\* A row written by a session that may write it.
LEMMA WriteKeeps ==
    ASSUME Inv, NEW s \in Sessions, NEW r \in Rows, MayWrite(s, r),
           NEW b \in Row, NEW x \in Row, NEW e \in Entry,
           Exists(b), Follows(b, db[r]), Amounts3(b) = Plus(ledger[r], e),
           mode[s] = "pessimistic" => x = b,
           Write(s, r, b), mem' = [mem EXCEPT ![s][r] = x],
           effects' = [effects EXCEPT ![s][r] = e], UNCHANGED <<db, mode, ledger>>
    PROVE  RowInv' /\ ObjectInv' /\ LedgerInv'
<1> USE SessionAssumption
<1>1. /\ pending' = [pending EXCEPT ![r] = b] /\ holder' = [holder EXCEPT ![r] = s]
      /\ holder[r] = NoSession \/ holder[r] = s
  BY DEF Write, MayWrite
<1>2. RowInv'
  BY <1>1 DEF Inv, TypeOK, RowInv
<1>3. ObjectInv'
  <2> SUFFICES ASSUME NEW q \in Sessions, NEW p \in Rows,
                      mode'[q] = "pessimistic", Exists(mem'[q][p])
               PROVE  holder'[p] = q /\ mem'[q][p] = pending'[p]
    BY DEF ObjectInv
  <2>1. CASE p # r
    <3>1. mem'[q][p] = mem[q][p] /\ mode[q] = "pessimistic"
      BY <2>1 DEF Inv, TypeOK
    <3> QED
      BY <1>1, <2>1, <3>1 DEF Inv, TypeOK, ObjectInv
  <2>2. CASE p = r /\ q = s
    BY <1>1, <2>2 DEF Inv, TypeOK
  <2>3. CASE p = r /\ q # s
    <3>1. mem'[q][p] = mem[q][p] /\ mode[q] = "pessimistic"
      BY <2>3 DEF Inv, TypeOK
    <3>2. holder[r] = q
      BY <2>3, <3>1 DEF Inv, ObjectInv
    <3> QED
      BY <1>1, <2>3, <3>2
  <2> QED
    BY <2>1, <2>2, <2>3
<1>4. LedgerInv'
  <2> SUFFICES ASSUME NEW p \in Rows
               PROVE  /\ ledger'[p] = Amounts3(db'[p])
                      /\ \A q \in Sessions :
                            IF holder'[p] = q THEN Amounts3(pending'[p]) = Plus(ledger'[p], effects'[q][p])
                                              ELSE effects'[q][p] = NoEntry
    BY DEF LedgerInv
  <2>1. CASE p # r
    BY <1>1, <2>1 DEF Inv, TypeOK, LedgerInv
  <2>2. CASE p = r
    BY <1>1, <2>2 DEF Inv, TypeOK, LedgerInv
  <2> QED
    BY <2>1, <2>2
<1> QED
  BY <1>2, <1>3, <1>4

\* The same for a flush that writes several rows at once.
LEMMA WritesKeep ==
    ASSUME Inv, NEW s \in Sessions, NEW W \in SUBSET Rows,
           \A r \in W : /\ MayWrite(s, r) /\ holder'[r] = s /\ mem'[s][r] = pending'[r]
                        /\ Exists(pending'[r]) /\ Follows(pending'[r], db[r])
                        /\ Amounts3(pending'[r]) = Plus(ledger[r], effects'[s][r]),
           \A r \in Rows \ W : /\ holder'[r] = holder[r] /\ pending'[r] = pending[r]
                               /\ mem'[s][r] = mem[s][r] /\ effects'[s][r] = effects[s][r],
           \A q \in Sessions \ {s} : mem'[q] = mem[q] /\ effects'[q] = effects[q],
           UNCHANGED <<db, mode, ledger>>
    PROVE  RowInv' /\ ObjectInv' /\ LedgerInv'
<1> USE SessionAssumption
<1>1. RowInv'
  BY DEF Inv, RowInv
<1>2. ObjectInv'
  <2> SUFFICES ASSUME NEW q \in Sessions, NEW p \in Rows,
                      mode'[q] = "pessimistic", Exists(mem'[q][p])
               PROVE  holder'[p] = q /\ mem'[q][p] = pending'[p]
    BY DEF ObjectInv
  <2>1. CASE p \notin W
    BY <2>1 DEF Inv, ObjectInv
  <2>2. CASE p \in W /\ q # s
    BY <2>2 DEF Inv, ObjectInv, MayWrite
  <2> QED
    BY <2>1, <2>2
<1>3. LedgerInv'
  <2> SUFFICES ASSUME NEW p \in Rows, NEW q \in Sessions
               PROVE  IF holder'[p] = q THEN Amounts3(pending'[p]) = Plus(ledger'[p], effects'[q][p])
                                        ELSE effects'[q][p] = NoEntry
    BY DEF Inv, LedgerInv
  <2>1. CASE p \notin W
    BY <2>1 DEF Inv, LedgerInv
  <2>2. CASE p \in W /\ q # s
    BY <2>2 DEF Inv, LedgerInv, MayWrite
  <2> QED
    BY <2>1, <2>2
<1> QED
  BY <1>1, <1>2, <1>3

\* An object loaded without writing anything.
LEMMA LoadKeeps ==
    ASSUME Inv, NEW s \in Sessions, NEW r \in Rows, NEW x \in Row,
           mode[s] = "pessimistic" /\ Exists(x) => holder[r] = s /\ x = pending[r],
           mem' = [mem EXCEPT ![s][r] = x], UNCHANGED <<db, holder, pending, mode, effects, ledger>>
    PROVE  RowInv' /\ ObjectInv' /\ LedgerInv'
<1>1. RowInv' /\ LedgerInv'
  BY DEF Inv, RowInv, LedgerInv
<1>2. ObjectInv'
  BY DEF Inv, TypeOK, ObjectInv
<1> QED
  BY <1>1, <1>2

\* The calls of the other sessions are not disturbed.
LEMMA OtherCalls ==
    ASSUME Inv, NEW s \in Sessions, CallOK(s)',
           \A q \in Sessions \ {s} : call'[q] = call[q] /\ mode'[q] = mode[q] /\ mem'[q] = mem[q],
           \A r \in Rows : holder'[r] \in {holder[r], s, NoSession}
    PROVE  CallInv'
<1> SUFFICES ASSUME NEW q \in Sessions, q # s PROVE CallOK(q)'
  BY DEF CallInv
<1>1. CallOK(q) /\ call[q].row \in Rows
  BY CallFields DEF Inv, CallInv
<1> QED
  BY <1>1, SessionAssumption DEF CallOK

\* What NextAttempt, Goto and Return do to the acting session's call.
LEMMA CallSteps ==
    ASSUME TypeOK, NEW s \in Sessions, NEW l \in PCs
    PROVE  /\ Goto(s, l) => /\ call'[s].pc = l /\ call'[s].op = call[s].op
                            /\ call'[s].row = call[s].row /\ call'[s].amt = call[s].amt
                            /\ \A q \in Sessions \ {s} : call'[q] = call[q]
           /\ Return(s) => /\ call'[s].pc = "idle"
                           /\ \A q \in Sessions \ {s} : call'[q] = call[q]
           /\ NextAttempt(s) => /\ call'[s].pc \in {"select", "failed"}
                                /\ call'[s].op = call[s].op /\ call'[s].row = call[s].row
                                /\ \A q \in Sessions \ {s} : call'[q] = call[q]
<1>1. ASSUME Goto(s, l)
      PROVE  /\ call'[s].pc = l /\ call'[s].op = call[s].op
             /\ call'[s].row = call[s].row /\ call'[s].amt = call[s].amt
             /\ \A q \in Sessions \ {s} : call'[q] = call[q]
  BY <1>1 DEF TypeOK, Call, Goto
<1>2. ASSUME Return(s)
      PROVE  call'[s].pc = "idle" /\ \A q \in Sessions \ {s} : call'[q] = call[q]
  BY <1>2 DEF TypeOK, Return, Idle
<1>3. ASSUME NextAttempt(s)
      PROVE  /\ call'[s].pc \in {"select", "failed"}
             /\ call'[s].op = call[s].op /\ call'[s].row = call[s].row
             /\ \A q \in Sessions \ {s} : call'[q] = call[q]
  BY <1>3 DEF TypeOK, NextAttempt
<1> QED
  BY <1>1, <1>2, <1>3

\* A change made through the ORM object: the flush writes what was computed.
LEMMA ApplyKeeps ==
    ASSUME Inv, NEW s \in Sessions, NEW op \in Ops, NEW r \in Rows, NEW a \in Nat,
           mode[s] = "pessimistic", Exists(mem[s][r]), ApplyAndFlush(s, op, r, a),
           UNCHANGED <<db, mode, ledger>>
    PROVE  CallInv' /\ RowInv' /\ ObjectInv' /\ LedgerInv'
<1> DEFINE old == mem[s][r]
           new == Changed(op, old, a)
<1>0. TypeOK /\ old \in Row /\ new \in Row /\ Promise(op, a) \in Entry
  BY ChangedType, PromiseEntry DEF Inv, TypeOK
<1>1. CASE /\ check_invariant(new) /\ MayWrite(s, r)
           /\ Write(s, r, Flush(Visible(s, r), old, new))
           /\ mem' = [mem EXCEPT ![s][r] = new] /\ Told(s, r, op, a) /\ Return(s)
  <2>1. old = pending[r] /\ Visible(s, r) = old
        /\ Amounts3(old) = Plus(ledger[r], effects[s][r])
    BY <1>1, WriterView, LoadedIsCurrent
  <2>2. Flush(Visible(s, r), old, new) = new
    BY <1>0, <2>1, FlushCurrent
  <2> DEFINE e == Plus(effects[s][r], Promise(op, a))
  <2>3. e \in Entry /\ effects' = [effects EXCEPT ![s][r] = e]
    BY <1>0, <1>1, PlusType DEF Told, Inv, TypeOK
  <2>4. Amounts3(new) = Plus(ledger[r], e)
    BY <1>0, <2>1, Arithmetic, PlusAssociative DEF Inv, TypeOK
  <2>5. new.version = old.version + 1
    BY <1>0, Arithmetic
  <2>6. db[r] \in Row /\ Follows(old, db[r])
    BY <2>1 DEF Inv, TypeOK, RowInv
  <2>7. Exists(new) /\ Follows(new, db[r])
    BY <1>0, <1>1, <2>5, <2>6 DEF Exists, Follows, Row
  <2>8. RowInv' /\ ObjectInv' /\ LedgerInv'
    <3> HIDE DEF old, new, e
    <3> QED
      BY <1>0, <1>1, <2>2, <2>3, <2>4, <2>7, WriteKeeps
  <2>9. CallInv'
    <3>1. CallOK(s)'
      BY <1>0, <1>1, CallSteps, mode'[s] = "pessimistic" DEF CallOK, PCs
    <3>2. \A q \in Sessions \ {s} : mode'[q] = mode[q] /\ mem'[q] = mem[q]
      BY <1>0, <1>1 DEF TypeOK
    <3>3. \A p \in Rows : holder'[p] \in {holder[p], s, NoSession}
      BY <1>0, <1>1 DEF TypeOK, Write
    <3>4. \A q \in Sessions \ {s} : call'[q] = call[q]
      BY <1>0, <1>1, CallSteps DEF PCs
    <3> QED
      BY <3>1, <3>2, <3>3, <3>4, OtherCalls
  <2> QED
    BY <2>8, <2>9
<1>2. CASE Goto(s, "failed") /\ UNCHANGED <<holder, pending, mem, effects>>
  <2>1. RowInv' /\ ObjectInv' /\ LedgerInv'
    BY <1>2 DEF Inv, RowInv, ObjectInv, LedgerInv
  <2>2. call'[s].pc = "failed" /\ \A q \in Sessions \ {s} : call'[q] = call[q]
    BY <1>0, <1>2, CallSteps, "failed" \in PCs DEF PCs
  <2>3. CallOK(s)'
    BY <2>2 DEF CallOK
  <2> QED
    BY <1>2, <2>1, <2>2, <2>3, OtherCalls
<1> QED
  BY <1>1, <1>2 DEF ApplyAndFlush

\* SELECT ... FOR UPDATE in a pessimistic session.
LEMMA LockRowKeeps ==
    ASSUME Inv, NEW s \in Sessions, NEW r \in Rows, mode[s] = "pessimistic", LockRow(s, r),
           UNCHANGED <<db, mode, effects, ledger>>
    PROVE  RowInv' /\ ObjectInv' /\ LedgerInv' /\ Exists(mem'[s][r])
<1>1. Visible(s, r) = pending[r] /\ Loaded(s, r) = pending[r]
      /\ Amounts3(pending[r]) = Plus(ledger[r], effects[s][r])
  BY WriterView, LoadedIsCurrent DEF LockRow
<1>2. pending[r] \in Row /\ effects[s][r] \in Entry /\ Follows(pending[r], db[r]) /\ Exists(pending[r])
  BY <1>1 DEF Inv, TypeOK, RowInv, LockRow
<1>3. effects' = [effects EXCEPT ![s][r] = effects[s][r]]
  BY DEF Inv, TypeOK
<1>4. Write(s, r, pending[r]) /\ mem' = [mem EXCEPT ![s][r] = pending[r]] /\ MayWrite(s, r)
  BY <1>1 DEF LockRow
<1>5. RowInv' /\ ObjectInv' /\ LedgerInv'
  BY <1>1, <1>2, <1>3, <1>4, WriteKeeps
<1>6. Exists(mem'[s][r])
  BY <1>2, <1>4 DEF Inv, TypeOK
<1> QED
  BY <1>5, <1>6

\* The end of a session: its rows become free, the others see nothing of it.
LEMMA CloseKeeps ==
    ASSUME Inv, NEW s \in Sessions, Close(s), TypeOK',
           \/ /\ db' = [r \in Rows |-> IF holder[r] = s THEN pending[r] ELSE db[r]]
              /\ ledger' = [r \in Rows |-> Plus(ledger[r], effects[s][r])]
           \/ UNCHANGED <<db, ledger>>
    PROVE  CallInv' /\ RowInv' /\ ObjectInv' /\ LedgerInv'
<1> USE SessionAssumption
<1>0. /\ holder' = [r \in Rows |-> IF holder[r] = s THEN NoSession ELSE holder[r]]
      /\ pending' = [r \in Rows |-> IF holder[r] = s THEN db'[r] ELSE pending[r]]
      /\ \A q \in Sessions \ {s} : /\ mem'[q] = mem[q] /\ mode'[q] = mode[q]
                                   /\ call'[q] = call[q] /\ effects'[q] = effects[q]
      /\ mode'[s] = "none" /\ call'[s].pc = "idle"
      /\ \A r \in Rows : mem'[s][r] = NoRow /\ effects'[s][r] = NoEntry
  BY DEF Close, Inv, TypeOK, Idle
<1>1. ASSUME NEW r \in Rows
      PROVE  /\ holder[r] = s => db'[r] = pending[r] \/ db'[r] = db[r]
             /\ holder[r] # s => db'[r] = db[r]
             /\ ledger'[r] = Amounts3(db'[r])
  <2>1. CASE UNCHANGED <<db, ledger>>
    BY <2>1 DEF Inv, LedgerInv
  <2>2. CASE /\ db' = [p \in Rows |-> IF holder[p] = s THEN pending[p] ELSE db[p]]
             /\ ledger' = [p \in Rows |-> Plus(ledger[p], effects[s][p])]
    <3>1. CASE holder[r] = s
      BY <2>2, <3>1 DEF Inv, LedgerInv
    <3>2. CASE holder[r] # s
      BY <2>2, <3>2, PlusNothing DEF Inv, TypeOK, LedgerInv
    <3> QED
      BY <3>1, <3>2
  <2> QED
    BY <2>1, <2>2
<1>2. CallInv'
  <2>1. CallOK(s)'
    BY <1>0 DEF CallOK, NoRow, Exists
  <2> QED
    BY <1>0, <2>1, OtherCalls
<1>3. RowInv'
  <2> SUFFICES ASSUME NEW r \in Rows
               PROVE  /\ check_invariant(db'[r])
                      /\ ~Exists(db'[r]) => db'[r] = NoRow
                      /\ holder'[r] = NoSession => pending'[r] = db'[r]
                      /\ holder'[r] # NoSession => Exists(pending'[r])
                      /\ Follows(pending'[r], db'[r])
    BY DEF RowInv
  <2>1. /\ check_invariant(db[r]) /\ check_invariant(pending[r]) /\ db'[r] \in Row
        /\ ~Exists(db[r]) => db[r] = NoRow
        /\ holder[r] = NoSession => pending[r] = db[r]
        /\ holder[r] # NoSession => Exists(pending[r])
        /\ Follows(pending[r], db[r])
    BY DEF Inv, RowInv, TypeOK, Follows
  <2>2. \A b \in Row : check_invariant(b) => Follows(b, b)
    BY DEF Follows, Row
  <2>3. CASE holder[r] = s
    BY <1>0, <1>1, <2>1, <2>2, <2>3
  <2>4. CASE holder[r] # s
    BY <1>0, <1>1, <2>1, <2>4
  <2> QED
    BY <2>3, <2>4
<1>4. ObjectInv'
  <2> SUFFICES ASSUME NEW q \in Sessions, NEW r \in Rows,
                      mode'[q] = "pessimistic", Exists(mem'[q][r])
               PROVE  holder'[r] = q /\ mem'[q][r] = pending'[r]
    BY DEF ObjectInv
  <2>1. q # s /\ mem'[q][r] = mem[q][r] /\ mode[q] = "pessimistic"
    BY <1>0
  <2>2. holder[r] = q /\ mem[q][r] = pending[r]
    BY <2>1 DEF Inv, ObjectInv
  <2> QED
    BY <1>0, <2>1, <2>2
<1>5. LedgerInv'
  <2> SUFFICES ASSUME NEW r \in Rows, NEW q \in Sessions
               PROVE  IF holder'[r] = q THEN Amounts3(pending'[r]) = Plus(ledger'[r], effects'[q][r])
                                        ELSE effects'[q][r] = NoEntry
    BY <1>1 DEF LedgerInv
  <2>1. CASE q = s
    BY <1>0, <2>1
  <2>2. CASE q # s /\ holder[r] = q
    <3>1. ledger'[r] = ledger[r]
      BY <1>1, <2>2 DEF Inv, LedgerInv
    <3> QED
      BY <1>0, <2>2, <3>1 DEF Inv, LedgerInv
  <2>3. CASE q # s /\ holder[r] # q
    BY <1>0, <2>3 DEF Inv, LedgerInv
  <2> QED
    BY <2>1, <2>2, <2>3
<1> QED
  BY <1>2, <1>3, <1>4, <1>5

LEMMA InitInv == Init => Inv
<1> SUFFICES ASSUME Init PROVE Inv
  OBVIOUS
<1>1. TypeOK
  BY InitType
<1>2. \A r \in Rows : /\ db[r] \in {NoRow, ZeroRow} /\ pending[r] = db[r] /\ holder[r] = NoSession
                      /\ ledger[r] = NoEntry
                      /\ \A s \in Sessions : mem[s][r] = NoRow /\ effects[s][r] = NoEntry
  BY DEF Init
<1>3. \A s \in Sessions : mode[s] = "none" /\ call[s].pc = "idle"
  BY DEF Init, Idle
<1>4. CallInv
  BY <1>2, <1>3 DEF CallInv, CallOK, NoRow, Exists
<1>5. \A b \in {NoRow, ZeroRow} : /\ check_invariant(b) /\ Follows(b, b) /\ Amounts3(b) = NoEntry
                                  /\ ~Exists(b) => b = NoRow
  BY DEF check_invariant, Follows, Amounts3, NoRow, ZeroRow, NoEntry, Exists
<1>6. RowInv
  BY <1>2, <1>5 DEF RowInv
<1>7. ObjectInv
  BY <1>3 DEF ObjectInv
<1>8. LedgerInv
  BY <1>2, <1>5, SessionAssumption DEF LedgerInv
<1> QED
  BY <1>1, <1>4, <1>6, <1>7, <1>8 DEF Inv

LEMMA StepInv ==
    ASSUME ~LateRow, Inv, [Next]_vars
    PROVE  Inv'
<1> USE SessionAssumption
<1>0. TypeOK /\ TypeOK' /\ CallInv /\ RowInv /\ ObjectInv /\ LedgerInv
  BY StepType DEF Inv
<1> DEFINE Rest == CallInv' /\ RowInv' /\ ObjectInv' /\ LedgerInv'
<1>1. CASE UNCHANGED vars
  <2>1. UNCHANGED <<db, holder, pending, mem, mode, call, effects, ledger>>
    BY <1>1 DEF vars
  <2>2. CallInv'
    BY <1>0, <2>1 DEF CallInv, CallOK
  <2>3. RowInv' /\ ObjectInv' /\ LedgerInv'
    BY <1>0, <2>1 DEF RowInv, ObjectInv, LedgerInv
  <2> QED
    BY <1>0, <2>2, <2>3 DEF Inv
<1>2. ASSUME NEW s \in Sessions, NEW m \in {"optimistic", "pessimistic"}, Begin(s, m)
      PROVE  Rest
  <2>1. mode[s] = "none" /\ mode'[s] = m /\ \A q \in Sessions \ {s} : mode'[q] = mode[q]
    BY <1>0, <1>2 DEF Begin, TypeOK
  <2>2. call[s].pc = "idle" /\ \A r \in Rows : ~Exists(mem[s][r])
    BY <1>0, <2>1 DEF CallInv, CallOK
  <2>3. UNCHANGED <<db, holder, pending, mem, call, effects, ledger>>
    BY <1>2 DEF Begin
  <2>4. CallOK(s)'
    BY <2>1, <2>2, <2>3 DEF CallOK
  <2>5. CallInv'
    BY <2>1, <2>3, <2>4, OtherCalls
  <2>6. RowInv' /\ LedgerInv'
    BY <1>0, <2>3 DEF RowInv, LedgerInv
  <2>7. ObjectInv'
    BY <1>0, <2>1, <2>2, <2>3 DEF ObjectInv
  <2> QED
    BY <2>5, <2>6, <2>7
<1>3. ASSUME NEW s \in Sessions, NEW c \in Call,
             call[s].pc = "idle", call' = [call EXCEPT ![s] = c],
             \/ mode[s] = "optimistic" /\ c.op \in OptimisticOps /\ c.pc \in {"select", "failed"}
             \/ mode[s] = "pessimistic" /\ c.op \in AdminOps /\ c.pc = "forupdate",
             UNCHANGED <<db, holder, pending, mem, mode, effects, ledger>>
      PROVE  Rest
  <2>1. call'[s] = c /\ \A q \in Sessions \ {s} : call'[q] = call[q]
    BY <1>0, <1>3 DEF TypeOK
  <2>2. CallOK(s)'
    BY <1>3, <2>1 DEF CallOK
  <2>3. CallInv'
    BY <1>3, <2>1, <2>2, OtherCalls
  <2> QED
    BY <1>0, <1>3, <2>3 DEF RowInv, ObjectInv, LedgerInv
<1>4. ASSUME NEW s \in Sessions, NEW op \in OptimisticOps, NEW r \in Rows, NEW a \in Amounts,
             CallOptimistic(s, op, r, a)
      PROVE  Rest
  <2> DEFINE c == [pc |-> IF a <= 0 THEN "failed" ELSE "select", op |-> op, row |-> r,
                   amt |-> a, attempt |-> 1]
  <2>1. c \in Call /\ c.op \in OptimisticOps /\ c.pc \in {"select", "failed"}
    BY AmountAssumption, RetryAssumption DEF Call, PCs, Ops
  <2>2. /\ call[s].pc = "idle" /\ mode[s] = "optimistic" /\ call' = [call EXCEPT ![s] = c]
        /\ UNCHANGED <<db, holder, pending, mem, mode, effects, ledger>>
    BY <1>4 DEF CallOptimistic
  <2> HIDE DEF c
  <2> QED
    BY <1>3, <2>1, <2>2
<1>5. ASSUME NEW s \in Sessions, NEW op \in AdminOps, NEW r \in Rows, NEW a \in Amounts,
             admin_adjust(s, op, r, a)
      PROVE  Rest
  <2> DEFINE c == [pc |-> "forupdate", op |-> op, row |-> r, amt |-> a, attempt |-> 1]
  <2>1. c \in Call /\ c.op \in AdminOps /\ c.pc = "forupdate"
    BY AmountAssumption, RetryAssumption DEF Call, PCs, Ops
  <2>2. /\ call[s].pc = "idle" /\ mode[s] = "pessimistic" /\ call' = [call EXCEPT ![s] = c]
        /\ UNCHANGED <<db, holder, pending, mem, mode, effects, ledger>>
    BY <1>5 DEF admin_adjust
  <2> HIDE DEF c
  <2> QED
    BY <1>3, <2>1, <2>2
<1>6. ASSUME NEW s \in Sessions, SelectRow(s) \/ CreateSelect(s) PROVE Rest
  <2> DEFINE r == call[s].row
             seen == Loaded(s, r)
  <2>0. r \in Rows /\ seen \in Row
    BY <1>0, CallFields, ViewType
  <2>1. /\ mem' = [mem EXCEPT ![s][r] = seen]
        /\ UNCHANGED <<db, holder, pending, mode, effects, ledger>>
    BY <1>6 DEF SelectRow, CreateSelect
  <2>2. /\ mem'[s][r] = seen
        /\ \A q \in Sessions \ {s} : mem'[q] = mem[q]
    BY <1>0, <2>0, <2>1 DEF TypeOK
  <2>3. \/ mode[s] = "optimistic" /\ call[s].op \in OptimisticOps
        \/ mode[s] = "pessimistic" /\ call[s].op \in AdminOps /\ ~Exists(seen)
    <3>1. CASE SelectRow(s)
      BY <1>0, <3>1 DEF SelectRow, CallInv, CallOK
    <3>2. CASE CreateSelect(s)
      <4>1. call[s].pc = "create" /\ (Exists(seen) => call[s].op \in {"lock", "credit"} \/ LateRow)
        BY <3>2 DEF CreateSelect
      <4>2. \/ mode[s] = "optimistic" /\ call[s].op \in OptimisticOps
            \/ mode[s] = "pessimistic" /\ call[s].op \in AdminOps
        BY <1>0, <4>1 DEF CallInv, CallOK
      <4> QED
        BY <4>1, <4>2 DEF AdminOps
    <3> QED
      BY <1>6, <3>1, <3>2
  <2>4. RowInv' /\ ObjectInv' /\ LedgerInv'
    <3> HIDE DEF seen
    <3> QED
      BY <2>0, <2>1, <2>3, LoadKeeps
  <2>5. \/ Goto(s, "failed") \/ NextAttempt(s)
        \/ Goto(s, "create") /\ call[s].op \in {"lock", "credit"} /\ call[s].pc = "select"
        \/ Goto(s, "insert") /\ ~Exists(seen)
        \/ Goto(s, "update") /\ Exists(seen) /\ call[s].op \in OptimisticOps
    <3>1. CASE SelectRow(s)
      BY <1>0, <3>1 DEF SelectRow, CallInv, CallOK
    <3>2. CASE CreateSelect(s)
      <4>1. \/ ~Exists(seen) /\ Goto(s, "insert")
            \/ /\ Exists(seen) /\ call[s].op = "lock"
               /\ Goto(s, IF CanLock(seen, call[s].amt) THEN "update" ELSE "failed")
            \/ NextAttempt(s)
        BY <3>2 DEF CreateSelect
      <4>2. CASE Exists(seen) /\ call[s].op = "lock" /\ CanLock(seen, call[s].amt) /\ Goto(s, "update")
        BY <4>2 DEF OptimisticOps
      <4> HIDE DEF seen
      <4> QED
        BY <4>1, <4>2
    <3> QED
      BY <1>6, <3>1, <3>2
  <2>6. ~Exists(seen) => holder[r] # s
    <3>1. ~Exists(seen) => ~Exists(Visible(s, r))
      BY DEF Loaded
    <3> QED
      BY <1>0, <2>0, <3>1 DEF Visible, RowInv
  <2>7. /\ call'[s].pc \in {"failed", "select", "create", "insert", "update"}
        /\ call'[s].op = call[s].op /\ call'[s].row = r
        /\ call'[s].pc = "select" => call[s].op \in OptimisticOps
        /\ call'[s].pc = "create" => call[s].op \in {"lock", "credit"}
        /\ call'[s].pc = "insert" => ~Exists(seen)
        /\ call'[s].pc = "update" => Exists(seen) /\ call[s].op \in OptimisticOps
        /\ \A q \in Sessions \ {s} : call'[q] = call[q]
    <3>1. NextAttempt(s) => call[s].op \in OptimisticOps
      <4>1. CASE SelectRow(s)
        BY <1>0, <4>1 DEF SelectRow, CallInv, CallOK
      <4>2. CASE CreateSelect(s)
        <5>1. ASSUME NextAttempt(s), NEW l \in {"insert", "update", "failed", "forupdate"}
              PROVE  ~Goto(s, l) \/ l = "failed"
          BY <1>0, <5>1, CallSteps DEF PCs
        <5> QED
          BY <4>2, <5>1 DEF CreateSelect, OptimisticOps
      <4> QED
        BY <1>6, <4>1, <4>2
    <3>2. {"failed", "create", "insert", "update"} \subseteq PCs
      BY DEF PCs
    <3> HIDE DEF seen
    <3> QED
      BY <1>0, <2>5, <3>1, <3>2, CallSteps
  <2>8. CallOK(s)'
    BY <2>1, <2>2, <2>3, <2>6, <2>7 DEF CallOK, OptimisticOps, AdminOps
  <2>9. CallInv'
    BY <2>1, <2>2, <2>7, <2>8, OtherCalls
  <2> QED
    BY <2>4, <2>9
<1>7. ASSUME NEW s \in Sessions, NEW r \in Rows, get_for_update(s, r) PROVE Rest
  <2>1. /\ mode[s] = "pessimistic" /\ call[s].pc = "idle" /\ LockRow(s, r)
        /\ UNCHANGED <<db, mode, call, effects, ledger>>
    BY <1>7 DEF get_for_update
  <2>2. CallOK(s)'
    BY <2>1 DEF CallOK
  <2>3. /\ \A q \in Sessions \ {s} : mem'[q] = mem[q]
        /\ \A p \in Rows : holder'[p] \in {holder[p], s, NoSession}
    BY <1>0, <2>1 DEF LockRow, Write, TypeOK
  <2> QED
    BY <2>1, <2>2, <2>3, LockRowKeeps, OtherCalls
<1>8. ASSUME NEW s \in Sessions, NEW op \in OptimisticOps, NEW r \in Rows, NEW a \in Amounts,
             Pessimistic(s, op, r, a)
      PROVE  Rest
  BY <1>8, AmountAssumption, ApplyKeeps DEF Pessimistic, Ops
<1>9. ASSUME NEW s \in Sessions, AdminLock(s) PROVE Rest
  <2>0. /\ call[s].row \in Rows /\ mode[s] = "pessimistic" /\ call[s].op \in AdminOps
        /\ UNCHANGED <<db, mode, effects, ledger>>
    BY <1>0, <1>9, CallFields DEF AdminLock, CallInv, CallOK
  <2>1. CASE LockRow(s, call[s].row) /\ Goto(s, "apply")
    <3>1. RowInv' /\ ObjectInv' /\ LedgerInv' /\ Exists(mem'[s][call[s].row])
      BY <2>0, <2>1, LockRowKeeps
    <3>2. /\ call'[s].pc = "apply" /\ call'[s].op = call[s].op /\ call'[s].row = call[s].row
          /\ \A q \in Sessions \ {s} : call'[q] = call[q]
      BY <1>0, <2>1, CallSteps, "apply" \in PCs DEF PCs
    <3>3. CallOK(s)'
      BY <2>0, <3>1, <3>2 DEF CallOK
    <3>4. /\ \A q \in Sessions \ {s} : mem'[q] = mem[q]
          /\ \A p \in Rows : holder'[p] \in {holder[p], s, NoSession}
      BY <1>0, <2>0, <2>1 DEF LockRow, Write, TypeOK
    <3> QED
      BY <2>0, <3>1, <3>2, <3>3, <3>4, OtherCalls
  <2>2. CASE Goto(s, "create") /\ UNCHANGED <<holder, pending, mem>>
    <3>1. /\ call'[s].pc = "create" /\ call'[s].op = call[s].op
          /\ \A q \in Sessions \ {s} : call'[q] = call[q]
      BY <1>0, <2>2, CallSteps, "create" \in PCs DEF PCs
    <3>2. CallOK(s)'
      BY <2>0, <2>2, <3>1 DEF CallOK
    <3>3. CallInv'
      BY <2>0, <2>2, <3>1, <3>2, OtherCalls
    <3> QED
      BY <1>0, <2>0, <2>2, <3>3 DEF RowInv, ObjectInv, LedgerInv
  <2> QED
    BY <1>9, <2>1, <2>2 DEF AdminLock
<1>10. ASSUME NEW s \in Sessions, AdminApply(s) PROVE Rest
  BY <1>0, <1>10, CallFields, ApplyKeeps DEF AdminApply, CallInv, CallOK
<1>11. ASSUME NEW s \in Sessions, Commit(s) \/ Rollback(s) PROVE Rest
  BY <1>0, <1>11, CloseKeeps DEF Commit, Rollback
<1>12. ASSUME NEW s \in Sessions, CreateInsert(s) PROVE Rest
  <2> DEFINE r == call[s].row
  <2>0. /\ r \in Rows /\ call[s].pc = "insert" /\ MayWrite(s, r) /\ holder[r] # s
        /\ UNCHANGED <<db, mode, effects, ledger>>
        /\ \/ mode[s] = "optimistic" /\ call[s].op \in OptimisticOps
           \/ mode[s] = "pessimistic" /\ call[s].op \in AdminOps
    BY <1>0, <1>12, CallFields DEF CreateInsert, CallInv, CallOK
  <2>1. CASE Goto(s, "failed") /\ UNCHANGED <<holder, pending, mem>>
    <3>1. call'[s].pc = "failed" /\ \A q \in Sessions \ {s} : call'[q] = call[q]
      BY <1>0, <2>1, CallSteps, "failed" \in PCs DEF PCs
    <3>2. CallOK(s)'
      BY <2>0, <3>1 DEF CallOK
    <3>3. CallInv'
      BY <2>0, <2>1, <3>1, <3>2, OtherCalls
    <3> QED
      BY <1>0, <2>0, <2>1, <3>3 DEF RowInv, ObjectInv, LedgerInv
  <2>2. CASE /\ ~Exists(db[r]) /\ Write(s, r, ZeroRow) /\ mem' = [mem EXCEPT ![s][r] = ZeroRow]
             /\ \/ call[s].op = "lock" /\ Goto(s, "failed")
                \/ call[s].op = "credit" /\ NextAttempt(s)
                \/ call[s].op \in AdminOps /\ Goto(s, "forupdate")
    <3>1. db[r] = NoRow /\ effects[s][r] = NoEntry /\ ledger[r] = Amounts3(db[r])
      BY <1>0, <2>0, <2>2 DEF RowInv, LedgerInv
    <3>2. /\ ZeroRow \in Row /\ Exists(ZeroRow) /\ Follows(ZeroRow, db[r])
          /\ Amounts3(ZeroRow) = Plus(ledger[r], NoEntry) /\ NoEntry \in Entry
      BY <3>1 DEF ZeroRow, NoRow, Row, Exists, Follows, check_invariant, Amounts3, Plus, NoEntry, Entry
    <3>3. effects' = [effects EXCEPT ![s][r] = NoEntry]
      BY <1>0, <2>0, <3>1 DEF TypeOK
    <3>4. RowInv' /\ ObjectInv' /\ LedgerInv'
      <4> HIDE DEF r
      <4> QED
        BY <2>0, <2>2, <3>2, <3>3, WriteKeeps
    <3>5. {"failed", "forupdate"} \subseteq PCs
      BY DEF PCs
    <3>6. /\ \/ call'[s].pc = "failed"
             \/ call'[s].pc = "select" /\ call[s].op = "credit"
             \/ call'[s].pc = "forupdate" /\ call[s].op \in AdminOps
          /\ call'[s].op = call[s].op /\ \A q \in Sessions \ {s} : call'[q] = call[q]
      BY <1>0, <2>2, <3>5, CallSteps
    <3>7. CallOK(s)'
      BY <2>0, <3>6 DEF CallOK, OptimisticOps, AdminOps
    <3>8. /\ \A q \in Sessions \ {s} : mem'[q] = mem[q] /\ mode'[q] = mode[q]
          /\ \A p \in Rows : holder'[p] \in {holder[p], s, NoSession}
      BY <1>0, <2>0, <2>2 DEF TypeOK, Write
    <3> QED
      BY <3>4, <3>6, <3>7, <3>8, OtherCalls
  <2> QED
    BY <1>12, <2>1, <2>2 DEF CreateInsert
<1>13. ASSUME NEW s \in Sessions, UpdateRow(s) PROVE Rest
  <2> DEFINE op == call[s].op
             a == call[s].amt
             r == call[s].row
             cur == Visible(s, r)
             old == mem[s][r]
             obj == IF Allowed(op, old, a) THEN Changed(op, old, a) ELSE old
  <2>0. /\ op \in Ops /\ r \in Rows /\ a \in Nat /\ cur \in Row /\ old \in Row
        /\ op \in OptimisticOps /\ mode[s] = "optimistic" /\ Exists(old) /\ MayWrite(s, r)
        /\ mem' = [mem EXCEPT ![s][r] = obj] /\ UNCHANGED <<db, mode, ledger>>
    BY <1>0, <1>13, CallFields, ViewType DEF UpdateRow, CallInv, CallOK, TypeOK
  <2>1. obj \in Row
    BY <2>0, ChangedType
  <2>2. /\ \A q \in Sessions \ {s} : mem'[q] = mem[q] /\ mode'[q] = mode[q]
        /\ mode'[s] = "optimistic"
    BY <1>0, <2>0 DEF TypeOK
  <2>3. CASE /\ cur.version = old.version /\ Write(s, r, Changed(op, cur, a))
             /\ Told(s, r, op, a) /\ Return(s)
    <3> DEFINE b == Changed(op, cur, a)
               e == Plus(effects[s][r], Promise(op, a))
    <3>1. cur = pending[r] /\ Amounts3(cur) = Plus(ledger[r], effects[s][r])
      BY <2>0, WriterView
    <3>2. /\ b \in Row /\ b.version = cur.version + 1 /\ Amounts3(b) = Plus(Amounts3(cur), Promise(op, a))
          /\ check_invariant(cur) => check_invariant(b)
      BY <2>0, ChangedType, Arithmetic
    <3>3. db[r] \in Row /\ Follows(cur, db[r])
      BY <1>0, <2>0, <3>1 DEF TypeOK, RowInv
    <3>4. Exists(b) /\ Follows(b, db[r])
      BY <2>0, <3>2, <3>3 DEF Exists, Follows, Row
    <3>5. e \in Entry /\ effects' = [effects EXCEPT ![s][r] = e]
      BY <1>0, <2>0, <2>3, PromiseEntry, PlusType DEF Told, TypeOK
    <3>6. Amounts3(b) = Plus(ledger[r], e)
      BY <1>0, <2>0, <3>1, <3>2, PromiseEntry, PlusAssociative DEF TypeOK
    <3>7. RowInv' /\ ObjectInv' /\ LedgerInv'
      <4>1. /\ r \in Rows /\ MayWrite(s, r) /\ mode[s] # "pessimistic" /\ Write(s, r, b)
            /\ mem' = [mem EXCEPT ![s][r] = obj] /\ UNCHANGED <<db, mode, ledger>>
        BY <2>0, <2>3
      <4> HIDE DEF r, op, a, cur, old, obj, b, e
      <4> QED
        BY <2>1, <3>2, <3>4, <3>5, <3>6, <4>1, WriteKeeps
    <3>8. call'[s].pc = "idle" /\ \A q \in Sessions \ {s} : call'[q] = call[q]
      BY <1>0, <2>3, CallSteps, "idle" \in PCs DEF PCs
    <3>9. CallOK(s)'
      BY <2>2, <3>8 DEF CallOK
    <3>10. \A p \in Rows : holder'[p] \in {holder[p], s, NoSession}
      BY <1>0, <2>0, <2>3 DEF TypeOK, Write
    <3> QED
      BY <2>2, <3>7, <3>8, <3>9, <3>10, OtherCalls
  <2>4. CASE NextAttempt(s) /\ UNCHANGED <<holder, pending, effects>>
    <3>1. RowInv' /\ ObjectInv' /\ LedgerInv'
      <4> HIDE DEF r, obj
      <4> QED
        BY <2>0, <2>1, <2>4, LoadKeeps
    <3>2. /\ call'[s].pc \in {"select", "failed"} /\ call'[s].op = op
          /\ \A q \in Sessions \ {s} : call'[q] = call[q]
      BY <1>0, <2>4, CallSteps, "idle" \in PCs DEF PCs
    <3>3. CallOK(s)'
      BY <2>0, <2>2, <3>2 DEF CallOK
    <3> QED
      BY <2>2, <2>4, <3>1, <3>2, <3>3, OtherCalls
  <2> QED
    BY <1>13, <2>3, <2>4 DEF UpdateRow
<1>14. ASSUME NEW s \in Sessions, NEW t \in Rows, NEW m \in Rows, NEW a \in Amounts,
              settle_trade_pessimistic(s, t, m, a)
       PROVE  Rest
  <2> DEFINE paid == Changed("settle", mem[s][t], a)
             got == Changed("credit", mem[s][m], a)
             owed == Plus(effects[s][t], Promise("settle", a))
             due == Plus(effects[s][m], Promise("credit", a))
  <2>0. /\ mode[s] = "pessimistic" /\ call[s].pc = "idle" /\ t # m /\ a \in Nat
        /\ Exists(mem[s][t]) /\ Exists(mem[s][m]) /\ UNCHANGED <<db, mode, ledger>>
    BY <1>14, AmountAssumption DEF settle_trade_pessimistic
  <2>1. CASE /\ check_invariant(paid) /\ check_invariant(got) /\ MayWrite(s, t) /\ MayWrite(s, m)
             /\ pending' = [pending EXCEPT ![t] = Flush(Visible(s, t), mem[s][t], paid),
                                           ![m] = Flush(Visible(s, m), mem[s][m], got)]
             /\ holder' = [holder EXCEPT ![t] = s, ![m] = s]
             /\ mem' = [mem EXCEPT ![s][t] = paid, ![s][m] = got]
             /\ effects' = [effects EXCEPT ![s][t] = Plus(@, Promise("settle", a)),
                                           ![s][m] = Plus(@, Promise("credit", a))]
             /\ UNCHANGED call
    <3>1. ASSUME NEW p \in Rows, NEW op \in Ops, MayWrite(s, p), Exists(mem[s][p])
          PROVE  LET new == Changed(op, mem[s][p], a)
                 IN  /\ Flush(Visible(s, p), mem[s][p], new) = new
                     /\ check_invariant(new) => Exists(new) /\ Follows(new, db[p])
                     /\ Amounts3(new) = Plus(ledger[p], Plus(effects[s][p], Promise(op, a)))
      <4> DEFINE old == mem[s][p]
                 new == Changed(op, old, a)
      <4>1. old = pending[p] /\ Visible(s, p) = old /\ Amounts3(old) = Plus(ledger[p], effects[s][p])
        BY <2>0, <3>1, WriterView, LoadedIsCurrent
      <4>2. old \in Row /\ new \in Row /\ db[p] \in Row /\ Follows(old, db[p])
        BY <1>0, <2>0, <4>1, ChangedType DEF TypeOK, RowInv
      <4>3. new.version = old.version + 1 /\ Amounts3(new) = Plus(Amounts3(old), Promise(op, a))
        BY <2>0, <4>2, Arithmetic
      <4>4. Flush(Visible(s, p), old, new) = new
        BY <4>1, <4>2, FlushCurrent
      <4>5. check_invariant(new) => Exists(new) /\ Follows(new, db[p])
        BY <4>2, <4>3 DEF Exists, Follows, Row
      <4>6. Amounts3(new) = Plus(ledger[p], Plus(effects[s][p], Promise(op, a)))
        BY <1>0, <2>0, <4>1, <4>3, PromiseEntry, PlusAssociative DEF TypeOK
      <4> QED
        BY <4>4, <4>5, <4>6
    <3>2. "settle" \in Ops /\ "credit" \in Ops
      BY DEF Ops, OptimisticOps
    <3>3. /\ Flush(Visible(s, t), mem[s][t], paid) = paid /\ Exists(paid) /\ Follows(paid, db[t])
          /\ Amounts3(paid) = Plus(ledger[t], owed)
      BY <2>0, <2>1, <3>1, <3>2
    <3>4. /\ Flush(Visible(s, m), mem[s][m], got) = got /\ Exists(got) /\ Follows(got, db[m])
          /\ Amounts3(got) = Plus(ledger[m], due)
      BY <2>0, <2>1, <3>1, <3>2
    <3>5. /\ pending' = [pending EXCEPT ![t] = paid, ![m] = got]
          /\ effects'[s][t] = owed /\ effects'[s][m] = due
          /\ \A p \in Rows \ {t, m} : effects'[s][p] = effects[s][p]
          /\ \A q \in Sessions \ {s} : effects'[q] = effects[q]
      <4>1. effects \in [Sessions -> [Rows -> Entry]]
        BY <1>0 DEF TypeOK
      <4>2. effects' = [effects EXCEPT ![s][t] = owed, ![s][m] = due]
        BY <2>0, <2>1, <4>1
      <4>3. pending' = [pending EXCEPT ![t] = paid, ![m] = got]
        BY <2>1, <3>3, <3>4
      <4> HIDE DEF paid, got, owed, due
      <4> QED
        BY <2>0, <4>1, <4>2, <4>3
    <3> HIDE DEF paid, got, owed, due
    <3>6. /\ mem'[s][t] = paid /\ mem'[s][m] = got
          /\ \A p \in Rows \ {t, m} : mem'[s][p] = mem[s][p]
          /\ \A q \in Sessions \ {s} : mem'[q] = mem[q]
      BY <1>0, <2>0, <2>1 DEF TypeOK
    <3>7. /\ holder'[t] = s /\ holder'[m] = s /\ pending'[t] = paid /\ pending'[m] = got
          /\ \A p \in Rows \ {t, m} : holder'[p] = holder[p] /\ pending'[p] = pending[p]
      BY <1>0, <2>0, <2>1, <3>5 DEF TypeOK
    <3>8. RowInv' /\ ObjectInv' /\ LedgerInv'
      <4> DEFINE W == {t, m}
      <4>1. W \in SUBSET Rows
        OBVIOUS
      <4>2. \A p \in W : /\ MayWrite(s, p) /\ holder'[p] = s /\ mem'[s][p] = pending'[p]
                         /\ Exists(pending'[p]) /\ Follows(pending'[p], db[p])
                         /\ Amounts3(pending'[p]) = Plus(ledger[p], effects'[s][p])
        BY <2>1, <3>3, <3>4, <3>5, <3>6, <3>7
      <4>3. \A p \in Rows \ W : /\ holder'[p] = holder[p] /\ pending'[p] = pending[p]
                                /\ mem'[s][p] = mem[s][p] /\ effects'[s][p] = effects[s][p]
        BY <3>5, <3>6, <3>7
      <4> HIDE DEF W
      <4>4. \A q \in Sessions \ {s} : mem'[q] = mem[q] /\ effects'[q] = effects[q]
        BY ONLY <3>5, <3>6
      <4>5. PICK X : X = W
        OBVIOUS
      <4>6. X \in SUBSET Rows
        BY ONLY <4>1, <4>5
      <4>7. \A p \in X : /\ MayWrite(s, p) /\ holder'[p] = s /\ mem'[s][p] = pending'[p]
                         /\ Exists(pending'[p]) /\ Follows(pending'[p], db[p])
                         /\ Amounts3(pending'[p]) = Plus(ledger[p], effects'[s][p])
        BY ONLY <4>2, <4>5
      <4>8. \A p \in Rows \ X : /\ holder'[p] = holder[p] /\ pending'[p] = pending[p]
                                /\ mem'[s][p] = mem[s][p] /\ effects'[s][p] = effects[s][p]
        BY ONLY <4>3, <4>5
      <4>9. UNCHANGED <<db, mode, ledger>>
        BY ONLY <2>0
      <4> QED
        BY ONLY Inv, s \in Sessions, <4>4, <4>6, <4>7, <4>8, <4>9, WritesKeep
    <3>9. CallOK(s)'
      BY <2>0, <2>1 DEF CallOK
    <3>10. CallInv'
      BY <2>0, <2>1, <3>6, <3>7, <3>9, OtherCalls
    <3> QED
      BY <3>8, <3>10
  <2>2. CASE Goto(s, "failed") /\ UNCHANGED <<holder, pending, mem, effects>>
    <3>1. call'[s].pc = "failed" /\ \A q \in Sessions \ {s} : call'[q] = call[q]
      BY <1>0, <2>2, CallSteps, "failed" \in PCs DEF PCs
    <3>2. CallOK(s)'
      BY <2>0, <3>1 DEF CallOK
    <3>3. CallInv'
      BY <2>0, <2>2, <3>1, <3>2, OtherCalls
    <3> QED
      BY <1>0, <2>0, <2>2, <3>3 DEF RowInv, ObjectInv, LedgerInv
  <2>3. paid = settle(mem[s][t], a) /\ got = credit(mem[s][m], a)
    BY DEF Changed
  <2> QED
    BY <1>14, <2>1, <2>2, <2>3 DEF settle_trade_pessimistic
<1> QED
  BY <1>0, <1>1, <1>2, <1>4, <1>5, <1>6, <1>7, <1>8, <1>9, <1>10, <1>11, <1>12, <1>13, <1>14
     DEF Next, Step, Inv

\* The only step that changes a committed row is the commit of the session that
\* holds it, and what it installs follows the version it replaces.
LEMMA CommittedFollows ==
    ASSUME Inv, [Next]_vars, NEW r \in Rows
    PROVE  db'[r] = db[r] \/ db'[r] = pending[r]
<1>1. CASE UNCHANGED db
  BY <1>1
<1>2. ASSUME NEW s \in Sessions, Commit(s) PROVE db'[r] = db[r] \/ db'[r] = pending[r]
  BY <1>2 DEF Commit
<1>3. ASSUME NEW s \in Sessions, Step(s), ~Commit(s) PROVE UNCHANGED db
  <2>1. SelectRow(s) \/ CreateSelect(s) \/ CreateInsert(s) => UNCHANGED db
    BY DEF SelectRow, CreateSelect, CreateInsert
  <2>2. UpdateRow(s) \/ AdminLock(s) \/ AdminApply(s) \/ Rollback(s) => UNCHANGED db
    BY DEF UpdateRow, AdminLock, AdminApply, Rollback
  <2> QED
    BY <1>3, <2>1, <2>2 DEF Step
<1>4. ASSUME NEW s \in Sessions, NEW op, NEW p, NEW a,
             CallOptimistic(s, op, p, a) \/ Pessimistic(s, op, p, a) \/ admin_adjust(s, op, p, a)
      PROVE  UNCHANGED db
  BY <1>4 DEF CallOptimistic, Pessimistic, admin_adjust
<1>5. ASSUME NEW s \in Sessions, NEW p, Begin(s, p) \/ get_for_update(s, p) PROVE UNCHANGED db
  BY <1>5 DEF Begin, get_for_update
<1>6. ASSUME NEW s \in Sessions, NEW p, NEW q, NEW a, settle_trade_pessimistic(s, p, q, a)
      PROVE  UNCHANGED db
  BY <1>6 DEF settle_trade_pessimistic
<1> QED
  BY <1>1, <1>2, <1>3, <1>4, <1>5, <1>6 DEF Next, vars

\* The inductive invariant: the locking discipline of the two kinds of session.
THEOREM LockingDiscipline ==
    ASSUME ~LateRow
    PROVE  Spec => []Inv
BY InitInv, StepInv, PTL DEF Spec

\* models/balance.py's INVARIANT total == locked + available holds of every
\* committed row, although the optimistic UPDATEs never test it.
THEOREM InvariantKept ==
    ASSUME ~LateRow
    PROVE  Spec => []BalanceInvariant
<1>1. Inv => BalanceInvariant
  BY DEF Inv, RowInv, BalanceInvariant
<1> QED
  BY <1>1, LockingDiscipline, PTL

\* Optimistic and pessimistic writers of one row together lose no update and
\* apply none twice: a committed row is the sum of what its committed
\* transactions were told had been done.
THEOREM NothingLost ==
    ASSUME ~LateRow
    PROVE  Spec => []NoLostUpdate
<1>1. Inv => NoLostUpdate
  BY DEF Inv, LedgerInv, NoLostUpdate
<1> QED
  BY <1>1, LockingDiscipline, PTL

\* Whatever changes the amounts of a committed row raises its version, so the
\* expected-version test of an optimistic writer notices every change.
THEOREM VersionsTell ==
    ASSUME ~LateRow
    PROVE  Spec => VersionDetectsChange
<1> DEFINE Tells == \A r \in Rows : Amounts3(db'[r]) # Amounts3(db[r]) => db'[r].version > db[r].version
<1>1. ASSUME Inv, [Next]_vars PROVE Tells
  <2> SUFFICES ASSUME NEW r \in Rows, Amounts3(db'[r]) # Amounts3(db[r])
               PROVE  db'[r].version > db[r].version
    OBVIOUS
  <2>1. db'[r] = pending[r]
    BY <1>1, CommittedFollows
  <2>2. Follows(pending[r], db[r])
    BY <1>1 DEF Inv, RowInv
  <2> QED
    BY <2>1, <2>2 DEF Follows
<1> QED
  BY <1>1, LockingDiscipline, PTL DEF Spec, VersionDetectsChange

=============================================================================
