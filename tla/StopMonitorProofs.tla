------------------------- MODULE StopMonitorProofs -------------------------
(***************************************************************************)
(* Proofs about StopMonitor, for any requests, funds, prices, restarts and *)
(* failures.  The argument: a row of the orders table is written only by   *)
(* who holds it, so that a stop a task has locked is still pending when it *)
(* commits, and whatever a cancel overtakes is recorded; ids are drawn     *)
(* once, so that what is registered in Redis before the commit is not      *)
(* confused with anything; and each unit of funds is available, in a       *)
(* committed order, in a child, or in an open transaction.                 *)
(***************************************************************************)
EXTENDS StopMonitor, FiniteLemmas

Statuses == {"none", "pending", "new", "filled", "canceled"}
StopTypes == {"stop_market", "stop_limit", "trailing_stop"}
OrderRow == [status : Statuses, type : {"limit"} \cup StopTypes, side : {"buy", "sell"},
             stop : Nat, delta : Nat, parent : 0 .. MaxOrders]
Trail == [id : Ids, at : Int, extreme : Int, side : {"buy", "sell", "none"}, delta : Int]
Doing == {"enqueue", "unregister", "commit"}
TaskStages == {"down", "subscribe", "listen", "load", "trail", "query", "query_trailing", "list",
               "trigger"} \cup Doing
AppState == [up : BOOLEAN, monitor : BOOLEAN, starts : Nat]
TaskState == [pc : TaskStages, price : Nat, todo : SUBSET Ids, cur : 0 .. MaxOrders,
              seen : SUBSET Trail, trail : BOOLEAN]

-----------------------------------------------------------------------------
(* The inductive invariant.                                                *)

TypedPg ==
    /\ ord \in [Ids -> OrderRow]
    /\ rowLock \in [Ids -> {NoOne} \cup Clients \cup Tasks]
    /\ avail \in Nat /\ kids \in [Ids -> Nat] /\ last \in Nat
    /\ nextId \in 1 .. MaxOrders + 1

TypedRedis ==
    /\ stops \subseteq [id : Ids, at : Int]
    /\ trailing \subseteq Trail
    /\ index \subseteq 1 .. 2 * MaxOrders
    /\ sent \in [1 .. 2 * MaxOrders -> Nat]
    /\ inbox \in Seq(Nat)

\* A request, whatever it is doing.
IsRequest(q) ==
    /\ {"pc", "rows", "todo", "cur", "done"} \subseteq DOMAIN q
    /\ q.pc \in {"idle", "register", "cancel"}
    /\ q.todo \subseteq Ids /\ q.cur \in 0 .. MaxOrders /\ q.done \subseteq Ids
    /\ DOMAIN q.rows \subseteq Ids
    /\ \A id \in DOMAIN q.rows : q.rows[id] \in OrderRow

TypedActors ==
    /\ task \in [Tasks -> TaskState]
    /\ DOMAIN api = Clients
    /\ \A c \in Clients : IsRequest(api[c])
    /\ hurt \subseteq Ids /\ overrun \subseteq Ids
    /\ pair \in BOOLEAN /\ app \in AppState

Typed == TypedPg /\ TypedRedis /\ TypedActors

\* A row of a request that is not committed: a stop waits, a limit order does not,
\* and a child is a stop.
FreshRow(o) ==
    /\ o.status \in {"pending", "new"}
    /\ o.status = "pending" <=> IsStop(o)
    /\ o.parent # 0 => IsStop(o)

\* What a request holds at each stage.
Staged(q) ==
    /\ q.pc # "register" => DOMAIN q.rows = {}
    /\ q.pc # "cancel" => q.cur = 0 /\ q.done = {}
    /\ q.pc = "idle" => q.todo = {}
    /\ q.pc = "register" => q.todo \subseteq {id \in DOMAIN q.rows : q.rows[id].parent = 0}
    /\ \A id \in DOMAIN q.rows : FreshRow(q.rows[id])

\* Ids are drawn once: uncommitted rows are of one request, and of no committed row.
Drawn ==
    /\ \A c \in Clients : Staged(api[c])
    /\ \A c \in Clients : \A id \in DOMAIN api[c].rows : id < nextId /\ ord[id].status = "none"
    /\ \A c, d \in Clients : c # d => DOMAIN api[c].rows \cap DOMAIN api[d].rows = {}
    /\ \A id \in Ids : id >= nextId => ord[id].status = "none"

\* Who holds a row is writing it, and the row is there.
Held ==
    /\ \A id \in Ids, c \in Clients : rowLock[id] = c <=> id \in api[c].done
    /\ \A id \in Ids, t \in Tasks : rowLock[id] = t <=> task[t].cur = id
    /\ \A t \in Tasks : task[t].cur # 0 <=> task[t].pc \in Doing
    /\ \A t \in Tasks : task[t].cur # 0 => ord[task[t].cur].status = "pending"
    /\ \A c \in Clients : api[c].cur # 0 => ord[api[c].cur].status # "none"
    /\ \A c \in Clients : \A id \in api[c].done : ord[id].status # "none"
    /\ \A c \in Clients : \A id \in api[c].done : ord[id].status = "filled" /\ IsStop(ord[id]) => id \in overrun
    /\ task["prints"].pc = "down" => task["rescan"].pc = "down"
    /\ ~app.up => task["prints"].pc = "down" /\ ~app.monitor

\* The children of a committed row.
ChildrenOf(id) ==
    LET o == ord[id]
    IN  /\ o.status = "none" => o = NoOrder
        /\ o.status = "pending" \/ o.parent # 0 => IsStop(o)
        /\ kids[id] <= 1
        /\ ~IsStop(o) \/ o.status \in {"none", "pending", "new"} => kids[id] = 0
        /\ IsStop(o) /\ o.status = "filled" => kids[id] = 1
        /\ o.status = "canceled" /\ kids[id] = 1 => id \in overrun

\* A child is sent at most once, and only after it was pending.
SentOnce ==
    /\ \A id \in Ids : id >= nextId => sent[id] = 0
    /\ \A c \in Clients : \A id \in DOMAIN api[c].rows : api[c].rows[id].parent # 0 => sent[id] = 0
    /\ \A id \in Ids : ord[id].parent # 0 =>
          sent[id] + kids[id] <= 1 /\ (ord[id].status = "pending" => sent[id] = 0)

\* Redis knows an id at most once, and what the monitor has loaded is what is
\* there, unless it was removed.
TrailsAgree ==
    LET seen == task["prints"].seen
    IN  /\ \A e, f \in trailing : e.id = f.id => e = f
        /\ \A e, f \in seen : e.id = f.id => e = f
        /\ \A e \in seen, f \in trailing : e.id = f.id => e = f
        /\ \A e \in seen \cup trailing : e.id < nextId
        /\ \A c \in Clients : \A e \in seen \cup trailing : api[c].pc = "register" => e.id \notin api[c].todo

InQueue(id, o) == id \in index /\ \E e \in (IF o.type = "trailing_stop" THEN trailing ELSE stops) : e.id = id

\* A stop is registered before it is committed, and taken out by its holder only.
Registered ==
    /\ \A c \in Clients : \A id \in DOMAIN api[c].rows \ api[c].todo :
          LET o == api[c].rows[id] IN o.parent = 0 /\ IsStop(o) => InQueue(id, o)
    /\ \A id \in Ids \ hurt : ord[id].status = "pending" /\ ord[id].parent = 0 =>
          \/ InQueue(id, ord[id])
          \/ \E t \in Tasks : task[t].cur = id /\ task[t].pc = "commit"
          \/ \E c \in Clients : id \in api[c].done

\* A cancel that has read a limit order finds it as it was, or canceled.
LimitsRead ==
    \A c \in Clients, id \in Ids :
        (api[c].cur = id \/ id \in api[c].done) /\ ~IsStop(ord[id]) => ord[id].status \in {"new", "canceled"}

Ind ==
    /\ Typed /\ Drawn /\ Held
    /\ \A id \in Ids : ChildrenOf(id)
    /\ SentOnce /\ TrailsAgree /\ Registered /\ LimitsRead /\ FundsExact

-----------------------------------------------------------------------------
(* The rows of a request.                                                  *)

\* A place in a listing: the k of the order an id belongs to exists.
LEMMA PlaceExists ==
    ASSUME NEW n \in Nat, NEW at, \A k \in 1 .. n + 1 : at[k] \in Int,
           NEW id \in Int, at[1] <= id, id < at[n + 1]
    PROVE  \E k \in 1 .. n : at[k] <= id /\ id < at[k + 1]
<1> DEFINE S == {k \in 1 .. n : id < at[k + 1]}
<1>1. n \in S
  <2>1. n # 0
    BY SMT
  <2> QED
    BY <2>1, SMT
<1>2. S \subseteq Nat /\ S # {}
  BY <1>1
<1>3. PICK k \in S : \A j \in S : ~ (j < k)
  <2>1. IsWellFoundedOn(OpToRel(<, Nat), Nat)
    BY NatLessThanWellFounded
  <2>2. PICK k \in S : \A j \in S : ~ (<<j, k>> \in OpToRel(<, Nat))
    BY <1>2, <2>1, WFMin
  <2> QED
    BY <2>2, <1>2 DEF OpToRel
<1>4. CASE k = 1
  BY <1>4
<1>5. CASE k # 1
  <2>1. k - 1 \in 1 .. n /\ k - 1 \notin S /\ k - 1 < k /\ (k - 1) + 1 = k /\ k \in 1 .. n + 1
    BY <1>3, <1>5, SMT
  <2> QED
    BY <2>1, SMT
<1> QED
  BY <1>4, <1>5

Width(t) == IF t.sl THEN 2 ELSE 1

\* Where the rows of each order of a request start.
StartOf(b, first) == [k \in 1 .. Len(b) + 1 |->
                         first + SumFunction([j \in 1 .. k - 1 |-> Width(b[j])])]

LEMMA StartsGrow ==
    ASSUME NEW b \in Seq(TermSet), NEW first \in Nat
    PROVE  /\ StartOf(b, first)[1] = first
           /\ \A k \in 1 .. Len(b) + 1 : StartOf(b, first)[k] \in Nat /\ first <= StartOf(b, first)[k]
           /\ \A k \in 1 .. Len(b) : StartOf(b, first)[k + 1] = StartOf(b, first)[k] + Width(b[k])
<1> DEFINE w(k) == [j \in 1 .. k - 1 |-> Width(b[j])]
           sum(k) == SumFunctionOnSet(w(k), 1 .. k - 1)
<1>1. \A k \in 1 .. Len(b) + 1 : StartOf(b, first)[k] = first + sum(k)
  <2>1. \A k \in 1 .. Len(b) + 1 : DOMAIN w(k) = 1 .. k - 1
    OBVIOUS
  <2> QED
    BY <2>1 DEF StartOf, SumFunction
<1>2. \A k \in 1 .. Len(b) : Width(b[k]) \in Nat
  BY DEF Width
<1>3. \A k \in 1 .. Len(b) + 1 : IsFiniteSet(1 .. k - 1) /\ \A x \in 1 .. k - 1 : w(k)[x] \in Nat
  <2> SUFFICES ASSUME NEW k \in 1 .. Len(b) + 1 PROVE IsFiniteSet(1 .. k - 1) /\ \A x \in 1 .. k - 1 : w(k)[x] \in Nat
    OBVIOUS
  <2>1. Len(b) \in Nat /\ k - 1 \in Int /\ 1 \in Int
    OBVIOUS
  <2>2. IsFiniteSet(1 .. k - 1)
    BY <2>1, FS_Interval
  <2>3. \A x \in 1 .. k - 1 : x \in 1 .. Len(b)
    BY <2>1
  <2> QED
    BY <2>2, <2>3, <1>2
<1>4. sum(1) = 0
  <2>1. 1 .. 1 - 1 = {}
    BY SMT
  <2> QED
    BY <2>1, SumEmpty
<1>5. \A k \in 1 .. Len(b) + 1 : sum(k) \in Nat
  <2> HIDE DEF w
  <2> QED
    BY <1>3, SumNat
<1>6. \A k \in 1 .. Len(b) : sum(k + 1) = sum(k) + Width(b[k])
  <2> SUFFICES ASSUME NEW k \in 1 .. Len(b) PROVE sum(k + 1) = sum(k) + Width(b[k])
    OBVIOUS
  <2>1. Len(b) \in Nat /\ k + 1 \in 1 .. Len(b) + 1 /\ k \in 1 .. Len(b) + 1 /\ (k + 1) - 1 = k
    BY SMT
  <2>2. IsFiniteSet(1 .. k) /\ (\A x \in 1 .. k : w(k + 1)[x] \in Int) /\ k \in 1 .. k
    <3>1. IsFiniteSet(1 .. (k + 1) - 1) /\ \A x \in 1 .. (k + 1) - 1 : w(k + 1)[x] \in Nat
      BY <2>1, <1>3
    <3> HIDE DEF w
    <3> QED
      BY <3>1, <2>1
  <2>3. SumFunctionOnSet(w(k + 1), 1 .. k) = w(k + 1)[k] + SumFunctionOnSet(w(k + 1), (1 .. k) \ {k})
    <3> HIDE DEF w
    <3> QED
      BY <2>2, SumRemove
  <2>4. (1 .. k) \ {k} = 1 .. k - 1
    BY SMT
  <2>5. \A x \in 1 .. k - 1 : w(k + 1)[x] = w(k)[x]
    BY <2>1, SMT
  <2>6. SumFunctionOnSet(w(k + 1), 1 .. k - 1) = SumFunctionOnSet(w(k), 1 .. k - 1)
    <3> HIDE DEF w
    <3> QED
      BY <2>5, <1>3, <2>1, SumSame
  <2>7. w(k + 1)[k] = Width(b[k])
    BY <2>1, SMT
  <2>8. sum(k) \in Nat /\ Width(b[k]) \in Nat
    BY <1>5, <2>1, <1>2
  <2>9. sum(k + 1) = Width(b[k]) + sum(k)
    <3> HIDE DEF w
    <3> QED
      BY <2>1, <2>3, <2>4, <2>6, <2>7
  <2> HIDE DEF sum
  <2> QED
    BY <2>8, <2>9, SMT
<1>7. \A k \in 1 .. Len(b) : k \in 1 .. Len(b) + 1 /\ k + 1 \in 1 .. Len(b) + 1
  BY SMT
<1>8. 1 \in 1 .. Len(b) + 1
  BY SMT
<1> HIDE DEF sum
<1>9. \A k \in 1 .. Len(b) : StartOf(b, first)[k + 1] = StartOf(b, first)[k] + Width(b[k])
  <2> TAKE k \in 1 .. Len(b)
  <2>1. StartOf(b, first)[k] = first + sum(k) /\ StartOf(b, first)[k + 1] = first + sum(k + 1)
    BY <1>1, <1>7
  <2>2. sum(k) \in Nat /\ Width(b[k]) \in Nat /\ sum(k + 1) = sum(k) + Width(b[k])
    BY <1>2, <1>5, <1>6, <1>7
  <2> QED
    BY <2>1, <2>2, SMT
<1> QED
  BY <1>1, <1>4, <1>5, <1>8, <1>9, SMT

\* A request draws an interval of ids; each row is a fresh one of an order or of the
\* child of an order of the same request.
LEMMA RowsOfRequest ==
    ASSUME NEW b \in Seq(TermSet), NEW first \in Nat \ {0}, DOMAIN RowsOf(b, first) \subseteq Ids
    PROVE  /\ \E n \in Nat : DOMAIN RowsOf(b, first) = first .. first + n - 1
           /\ \A id \in DOMAIN RowsOf(b, first) :
                 RowsOf(b, first)[id] \in OrderRow /\ FreshRow(RowsOf(b, first)[id])
<1> DEFINE at == StartOf(b, first)
           R == RowsOf(b, first)
           end == at[Len(b) + 1]
           total == SumFunction([j \in DOMAIN b |-> Width(b[j])])
           from(j) == first + SumFunction([i \in 1 .. j - 1 |-> Width(b[i])])
           k(id) == CHOOSE j \in DOMAIN b : from(j) <= id /\ id < from(j) + Width(b[j])
<1>1. /\ at[1] = first
      /\ \A j \in 1 .. Len(b) + 1 : at[j] \in Nat /\ first <= at[j]
      /\ \A j \in 1 .. Len(b) : at[j + 1] = at[j] + Width(b[j])
  BY StartsGrow
<1>2. Len(b) \in Nat /\ DOMAIN b = 1 .. Len(b) /\ \A j \in DOMAIN b : b[j] \in TermSet
  OBVIOUS
<1>3. end = first + total
  <2>1. (Len(b) + 1) - 1 = Len(b) /\ Len(b) + 1 \in 1 .. Len(b) + 1
    BY <1>2, SMT
  <2> QED
    BY <2>1, <1>2 DEF StartOf
<1>0. \A j \in DOMAIN b : at[j] = from(j)
  <2>1. \A j \in DOMAIN b : j \in 1 .. Len(b) + 1
    BY <1>2, SMT
  <2> QED
    BY <2>1 DEF StartOf
<1>4. R = [id \in first .. end - 1 |-> IF id = from(k(id)) THEN Row(b[k(id)])
                                        ELSE create_sltp_child(b[k(id)], from(k(id)))]
  <2>1. R = [id \in first .. first + total - 1 |->
                IF id = from(k(id)) THEN Row(b[k(id)])
                ELSE create_sltp_child(b[k(id)], from(k(id)))]
    BY DEF RowsOf, Width
  <2>2. first + total - 1 = end - 1
    <3> DEFINE w == [j \in DOMAIN b |-> Width(b[j])]
    <3>1. IsFiniteSet(DOMAIN w) /\ \A j \in DOMAIN w : w[j] \in Int
      BY <1>2, FS_Interval DEF Width
    <3>2. total \in Int
      <4>1. total = SumFunctionOnSet(w, DOMAIN w)
        BY DEF SumFunction
      <4> HIDE DEF w, total
      <4> QED
        BY <3>1, <4>1, SumInt
    <3> HIDE DEF end, total
    <3> QED
      BY <1>3, <3>2
  <2> HIDE DEF end, total, R, k, from
  <2> QED
    BY <2>1, <2>2, Zenon
<1>5. DOMAIN R = first .. end - 1
  BY <1>4
<1>6. end \in Nat /\ first <= end
  BY <1>1, <1>2, SMT
<1>7. ASSUME NEW id \in DOMAIN R
      PROVE  k(id) \in DOMAIN b /\ from(k(id)) <= id /\ from(k(id)) \in Nat /\ first <= from(k(id))
  <2>1. id \in Int /\ at[1] <= id /\ id < at[Len(b) + 1] /\ \A j \in 1 .. Len(b) + 1 : at[j] \in Int
    BY <1>1, <1>5, <1>6, SMT
  <2> HIDE DEF at, from
  <2>2. \E j \in 1 .. Len(b) : at[j] <= id /\ id < at[j + 1]
    BY <2>1, <1>2, PlaceExists
  <2>3. \E j \in DOMAIN b : from(j) <= id /\ id < from(j) + Width(b[j])
    BY <2>2, <1>0, <1>1, <1>2
  <2>4. k(id) \in DOMAIN b /\ from(k(id)) <= id
    BY <2>3
  <2>5. k(id) \in 1 .. Len(b) + 1
    BY <2>4, <1>2, SMT
  <2> QED
    BY <2>4, <2>5, <1>0, <1>1
<1>8. ASSUME NEW id \in DOMAIN R
      PROVE  R[id] \in OrderRow /\ FreshRow(R[id])
  <2> DEFINE t == b[k(id)]
             a == from(k(id))
  <2>1. t \in TermSet /\ a \in Nat /\ first <= a /\ a <= id
    BY <1>2, <1>7
  <2>2. id \in first .. end - 1 /\ id \in Ids
    BY <1>5
  <2>3. R[id] = IF id = a THEN Row(t) ELSE create_sltp_child(t, a)
    BY <1>4, <2>2
  <2>4. a \in 0 .. MaxOrders /\ a # 0
    BY <2>1, <2>2, StopMonitorAssumption, SMT DEF Ids
  <2> HIDE DEF t, a
  <2>5. Row(t) \in OrderRow /\ FreshRow(Row(t))
    BY <2>1, StopMonitorAssumption DEF Row, OrderRow, FreshRow, IsStop, TermSet, Statuses, StopTypes
  <2>6. create_sltp_child(t, a) \in OrderRow /\ FreshRow(create_sltp_child(t, a))
    BY <2>1, <2>4 DEF create_sltp_child, OrderRow, FreshRow, IsStop, TermSet, Statuses, StopTypes, Opposite
  <2> QED
    BY <2>3, <2>5, <2>6
<1>9. end - first \in Nat /\ first + (end - first) - 1 = end - 1
  BY <1>6, SMT
<1> HIDE DEF R, end
<1>10. \E n \in Nat : DOMAIN R = first .. first + n - 1
  BY <1>5, <1>9
<1> QED
  BY <1>8, <1>10 DEF R

-----------------------------------------------------------------------------
(* Counting.                                                               *)

Committed == {id \in Ids : ~IsStop(ord[id]) /\ ord[id].status \in {"new", "filled"}}
PlacedBy == UNION {Placing(c) : c \in Clients}

\* The sets of the accounts are finite.
LEMMA Finite ==
    /\ \A S \in SUBSET Ids : IsFiniteSet(S) /\ Cardinality(S) \in Nat
    /\ \A S \in SUBSET Tasks : IsFiniteSet(S) /\ Cardinality(S) \in Nat
<1>1. IsFiniteSet(Ids)
  BY FS_Interval, StopMonitorAssumption DEF Ids
<1>2. IsFiniteSet({"prints"}) /\ Tasks = {"prints"} \cup {"rescan"}
  BY FS_Singleton DEF Tasks
<1>3. IsFiniteSet(Tasks)
  BY <1>2, FS_AddElement
<1> QED
  BY <1>1, <1>3, FS_Subset, FS_CardinalityType

LEMMA FundsForm ==
    /\ FundsExact <=> Funds = avail + Cardinality(Committed) + SumFunction(kids)
                              + Cardinality(InFlight) + Cardinality(PlacedBy)
    /\ FundsExact' <=> Funds = avail' + Cardinality(Committed') + SumFunction(kids')
                               + Cardinality(InFlight') + Cardinality(PlacedBy')
BY DEF FundsExact, Count, Committed, PlacedBy

\* The numbers of the accounts.
LEMMA Numbers ==
    ASSUME Typed
    PROVE  /\ avail \in Nat /\ Funds \in Nat
           /\ IsFiniteSet(Committed) /\ Cardinality(Committed) \in Nat
           /\ SumFunction(kids) \in Nat
           /\ IsFiniteSet(InFlight) /\ Cardinality(InFlight) \in Nat
           /\ IsFiniteSet(PlacedBy) /\ Cardinality(PlacedBy) \in Nat
           /\ PlacedBy \subseteq Ids /\ Committed \subseteq Ids
<1>1. Committed \subseteq Ids /\ InFlight \subseteq Tasks
  BY DEF Committed, InFlight
<1>2. PlacedBy \subseteq Ids
  BY DEF PlacedBy, Placing, Typed, TypedActors, IsRequest
<1>3. IsFiniteSet(Ids) /\ DOMAIN kids = Ids /\ \A x \in Ids : kids[x] \in Nat
  BY Finite DEF Typed, TypedPg
<1>4. SumFunction(kids) \in Nat
  BY <1>3, SumNat DEF SumFunction
<1> QED
  BY <1>1, <1>2, <1>4, Finite, StopMonitorAssumption DEF Typed, TypedPg

\* Nothing is lost while no unit changes its place.
LEMMA FundsKept ==
    ASSUME FundsExact, avail' = avail, kids' = kids, Committed' = Committed,
           InFlight' = InFlight, PlacedBy' = PlacedBy
    PROVE  FundsExact'
BY FundsForm

-----------------------------------------------------------------------------
(* The initial states.                                                     *)

LEMMA InitInd == Init => Ind
<1> SUFFICES ASSUME Init PROVE Ind
  OBVIOUS
<1> USE StopMonitorAssumption
<1>1. \A id \in Ids : ord[id] = NoOrder /\ rowLock[id] = NoOne /\ kids[id] = 0
  BY DEF Init
<1>2. \A c \in Clients : api[c] = NoRequest
  BY DEF Init
<1>3. \A t \in Tasks : task[t] = NoTask
  BY DEF Init
<1>4. NoOrder \in OrderRow /\ ~IsStop(NoOrder)
  BY DEF NoOrder, OrderRow, Statuses, StopTypes, IsStop
<1>5. NoTask \in TaskState /\ IsRequest(NoRequest) /\ Staged(NoRequest)
  BY DEF NoTask, TaskState, TaskStages, Doing, IsRequest, NoRequest, Staged
<1>6. TypedPg
  BY <1>1, <1>4 DEF Init, TypedPg
<1>7. TypedRedis
  BY DEF Init, TypedRedis
<1>8. TypedActors
  BY <1>2, <1>3, <1>5 DEF Init, TypedActors, AppState
<1>9. Drawn
  BY <1>1, <1>2, <1>5 DEF Init, Drawn, NoOrder, NoRequest
<1>10. Held
  BY <1>1, <1>2, <1>3 DEF Init, Held, NoOrder, NoRequest, NoTask, Tasks, Doing, Ids
<1>11. \A id \in Ids : ChildrenOf(id)
  BY <1>1, <1>4 DEF ChildrenOf, NoOrder
<1>12. SentOnce
  BY <1>1, <1>2 DEF Init, SentOnce, NoOrder, NoRequest, Ids
<1>13. TrailsAgree
  BY <1>3 DEF Init, TrailsAgree, NoTask, Tasks
<1>14. Registered
  BY <1>1, <1>2 DEF Registered, NoOrder, NoRequest
<1>15. LimitsRead
  BY <1>1, <1>2 DEF LimitsRead, NoRequest, Ids
<1>16. FundsExact
  <2>1. Committed = {} /\ InFlight = {} /\ PlacedBy = {}
    BY <1>1, <1>2, <1>3 DEF Committed, InFlight, PlacedBy, Placing, NoOrder, NoTask, NoRequest
  <2>2. SumFunction(kids) = 0
    <3> DEFINE S == SumFunction(kids)
    <3> DEFINE Bad == {T \in SUBSET Ids : SumFunctionOnSet(kids, T) # 0}
    <3>1. SumFunction(kids) = SumFunctionOnSet(kids, Ids) /\ IsFiniteSet(Ids)
      BY Finite DEF SumFunction, Init
    <3> SUFFICES ASSUME Bad # {} PROVE FALSE
      BY <3>1
    <3>2. PICK T \in Bad : \A x \in T : T \ {x} \notin Bad
      <4> Bad \subseteq SUBSET Ids
        OBVIOUS
      <4> HIDE DEF Bad
      <4> QED
        BY <3>1, SmallestSubset
    <3>3. T # {}
      BY SumEmpty
    <3>4. PICK x : x \in T
      BY <3>3
    <3>5. IsFiniteSet(T) /\ \A y \in T : kids[y] \in Int
      BY <3>1, FS_Subset, <1>1
    <3>6. SumFunctionOnSet(kids, T) = kids[x] + SumFunctionOnSet(kids, T \ {x})
      BY <3>4, <3>5, SumRemove
    <3>7. SumFunctionOnSet(kids, T \ {x}) = 0 /\ kids[x] = 0
      BY <3>2, <3>4, <1>1
    <3> QED
      BY <3>2, <3>6, <3>7
  <2>3. avail = Funds
    BY DEF Init
  <2> QED
    BY <2>1, <2>2, <2>3, FundsForm, FS_EmptySet
<1> QED
  BY <1>6, <1>7, <1>8, <1>9, <1>10, <1>11, <1>12, <1>13, <1>14, <1>15, <1>16 DEF Ind, Typed

-----------------------------------------------------------------------------
(* The monitor's steps that touch no row and no queue.                     *)

LEMMA TasksMove ==
    ASSUME Ind, UNCHANGED <<ord, rowLock, avail, kids, nextId, stops, trailing, index, sent, api, hurt, overrun>>,
           last' \in Nat, inbox' \in Seq(Nat), task' \in [Tasks -> TaskState],
           \A t \in Tasks : /\ task'[t].cur = task[t].cur
                            /\ task[t].cur # 0 => task'[t].pc = task[t].pc
                            /\ task[t].cur = 0 => task'[t].pc \notin Doing,
           task'["prints"].seen \in {task["prints"].seen, trailing, {}},
           task'["prints"].pc = "down" => task'["rescan"].pc = "down",
           pair' \in BOOLEAN, app' \in AppState,
           ~app'.up => task'["prints"].pc = "down" /\ ~app'.monitor
    PROVE  Ind'
<1> USE DEF Ind
<1>1. Typed'
  BY DEF Typed, TypedPg, TypedRedis, TypedActors
<1>2. Drawn'
  BY DEF Drawn
<1>3. Held'
  <2>1. \A t \in Tasks : task'[t].cur # 0 <=> task'[t].pc \in Doing
    BY DEF Held
  <2> QED
    BY <2>1 DEF Held
<1>4. (\A id \in Ids : ChildrenOf(id))'
  BY DEF ChildrenOf
<1>5. SentOnce'
  BY DEF SentOnce
<1>6. TrailsAgree'
  BY DEF TrailsAgree
<1>7. Registered'
  <2>1. \A t \in Tasks, id \in Ids : task[t].cur = id /\ task[t].pc = "commit"
            => task'[t].cur = id /\ task'[t].pc = "commit"
    BY StopMonitorAssumption DEF Ids
  <2> QED
    BY <2>1 DEF Registered, InQueue
<1>8. LimitsRead'
  BY DEF LimitsRead
<1>9. FundsExact'
  <2>1. Committed' = Committed /\ InFlight' = InFlight /\ PlacedBy' = PlacedBy
    BY DEF Committed, InFlight, PlacedBy, Placing
  <2> QED
    BY <2>1, FundsKept
<1> QED
  BY <1>1, <1>2, <1>3, <1>4, <1>5, <1>6, <1>7, <1>8, <1>9

LEMMA NoTaskFacts ==
    NoTask \in TaskState /\ NoTask.pc = "down" /\ NoTask.cur = 0 /\ NoTask.seen = {}
BY StopMonitorAssumption DEF NoTask, TaskState, TaskStages

\* What the lemmas below take from the invariant about the tasks.
LEMMA TaskFacts ==
    ASSUME Ind
    PROVE  /\ task \in [Tasks -> TaskState] /\ "prints" \in Tasks /\ "rescan" \in Tasks
           /\ inbox \in Seq(Nat) /\ last \in Nat /\ trailing \subseteq Trail
           /\ \A t \in Tasks : task[t].cur # 0 <=> task[t].pc \in Doing
           /\ \A t \in Tasks : t \in {"prints", "rescan"}
           /\ task["prints"].pc = "down" => task["rescan"].pc = "down"
           /\ pair \in BOOLEAN /\ app \in AppState
           /\ ~app.up => task["prints"].pc = "down" /\ ~app.monitor
BY DEF Ind, Typed, TypedPg, TypedRedis, TypedActors, Held, Tasks

LEMMA CreatePairInd == Ind /\ CreatePair => Ind'
<1> SUFFICES ASSUME Ind, CreatePair PROVE Ind'
  OBVIOUS
<1>1. UNCHANGED <<ord, rowLock, avail, kids, nextId, stops, trailing, index, sent, api, hurt, overrun,
                  last, inbox, task, app>> /\ pair' = TRUE
  BY DEF CreatePair, pg, queues
<1> QED
  BY <1>1, TasksMove, TaskFacts

LEMMA TradePrintInd ==
    ASSUME Ind, NEW price \in Prices, NEW real \in BOOLEAN, TradePrint(price, real)
    PROVE  Ind'
<1>1. UNCHANGED <<ord, rowLock, avail, kids, nextId, stops, trailing, index, sent, api, hurt, overrun, task, app, pair>>
  BY DEF TradePrint, queues
<1>2. price \in Nat
  BY StopMonitorAssumption
<1>3. last' \in Nat /\ inbox' \in Seq(Nat)
  BY <1>2, TaskFacts DEF TradePrint
<1> QED
  BY <1>1, <1>3, TasksMove, TaskFacts

\* The new states of the tasks that are started.
LEMMA SpawnedTasks ==
    /\ Spawned \in [Tasks -> TaskState]
    /\ \A t \in Tasks : Spawned[t].cur = 0 /\ Spawned[t].pc \in {"subscribe", "list"} /\ Spawned[t].seen = {}
    /\ Spawned["prints"].pc = "subscribe"
<1>1. \A t \in Tasks : Spawned[t] = [NoTask EXCEPT !.pc = IF t = "prints" THEN "subscribe" ELSE "list"]
  BY DEF Spawned
<1>2. \A p \in {"subscribe", "list"} : [NoTask EXCEPT !.pc = p] \in TaskState
  BY NoTaskFacts DEF TaskState, TaskStages
<1>3. DOMAIN Spawned = Tasks /\ Spawned = [t \in Tasks |-> Spawned[t]]
  BY DEF Spawned
<1> QED
  BY <1>1, <1>2, <1>3 DEF NoTask, Tasks

LEMMA StartInd == Ind /\ Start => Ind'
<1> SUFFICES ASSUME Ind, Start PROVE Ind'
  OBVIOUS
<1>1. UNCHANGED <<ord, rowLock, avail, kids, nextId, stops, trailing, index, sent, api, hurt, overrun, last, pair>>
  BY DEF Start, pg, queues
<1>2. inbox' \in Seq(Nat) /\ app'.up /\ app' \in AppState /\ task' \in {task, Spawned}
  BY TaskFacts, StopMonitorAssumption DEF Start, AppState
<1>3. task["prints"].cur = 0 /\ task["rescan"].cur = 0
  BY TaskFacts DEF Start, Doing
<1>4. \A t \in Tasks : task'[t].cur = task[t].cur /\ (task[t].cur = 0 => task'[t].pc \notin Doing)
  BY <1>2, <1>3, TaskFacts, SpawnedTasks DEF Doing
<1>5. \A t \in Tasks : task[t].cur = 0
  BY <1>3 DEF Tasks
<1>6. task' \in [Tasks -> TaskState] /\ task'["prints"].seen \in {task["prints"].seen, {}}
  BY <1>2, SpawnedTasks, TaskFacts
<1>7. task'["prints"].pc = "down" => task'["rescan"].pc = "down"
  BY <1>2, SpawnedTasks, TaskFacts
<1> QED
  BY <1>1, <1>2, <1>3, <1>4, <1>5, <1>6, <1>7, TasksMove, TaskFacts

LEMMA RefreshInd == Ind /\ Refresh => Ind'
<1> SUFFICES ASSUME Ind, Refresh PROVE Ind'
  OBVIOUS
<1>1. UNCHANGED <<ord, rowLock, avail, kids, nextId, stops, trailing, index, sent, api, hurt, overrun, last, inbox, app, pair>>
  BY DEF Refresh, pg, queues
<1>2. task' = Spawned
  BY DEF Refresh
<1>3. task["prints"].cur = 0 /\ task["rescan"].cur = 0
  BY TaskFacts DEF Refresh, Doing
<1>4. \A t \in Tasks : task'[t].cur = task[t].cur /\ (task[t].cur = 0 => task'[t].pc \notin Doing)
  BY <1>2, <1>3, TaskFacts, SpawnedTasks DEF Doing
<1>5. \A t \in Tasks : task[t].cur = 0
  BY <1>3 DEF Tasks
<1>6. task' \in [Tasks -> TaskState] /\ task'["prints"].seen \in {task["prints"].seen, {}}
  BY <1>2, SpawnedTasks, TaskFacts
<1>7. app.up
  BY TaskFacts DEF Refresh, AppState
<1>8. task'["prints"].pc # "down"
  BY <1>2, SpawnedTasks
<1> QED
  BY <1>1, <1>3, <1>4, <1>5, <1>6, <1>7, <1>8, TasksMove, TaskFacts

\* A step of one task outside a trigger.
LEMMA OneTaskMoves ==
    ASSUME Ind, NEW t \in Tasks, NEW q \in TaskState, task' = [task EXCEPT ![t] = q],
           UNCHANGED <<ord, rowLock, avail, kids, nextId, stops, trailing, index, sent, api, hurt, overrun, last, app, pair>>,
           inbox' \in Seq(Nat),
           q.cur = 0, task[t].cur = 0, q.pc \notin Doing,
           q.seen \in {task[t].seen, trailing, {}},
           task[t].pc # "down", t = "prints" => q.pc # "down"
    PROVE  Ind'
<1>1. task' \in [Tasks -> TaskState] /\ task'[t] = q /\ \A u \in Tasks \ {t} : task'[u] = task[u]
  BY TaskFacts
<1>2. \A u \in Tasks : /\ task'[u].cur = task[u].cur
                       /\ task[u].cur # 0 => task'[u].pc = task[u].pc
                       /\ task[u].cur = 0 => task'[u].pc \notin Doing
  BY <1>1, TaskFacts
<1>3. task'["prints"].seen \in {task["prints"].seen, trailing, {}}
  BY <1>1, TaskFacts
<1>4. task'["prints"].pc = "down" => task'["rescan"].pc = "down"
  BY <1>1, TaskFacts
<1>5. ~app'.up => task'["prints"].pc = "down" /\ ~app'.monitor
  BY <1>1, TaskFacts
<1> QED
  BY <1>1, <1>2, <1>3, <1>4, <1>5, TasksMove, TaskFacts

LEMMA SubscribeInd == Ind /\ Subscribe => Ind'
<1> SUFFICES ASSUME Ind, Subscribe PROVE Ind'
  OBVIOUS
<1> DEFINE q == [task["prints"] EXCEPT !.pc = "listen"]
<1>1. task' = [task EXCEPT !["prints"] = q] /\ task["prints"] \in TaskState /\ task["prints"].cur = 0
  BY TaskFacts DEF Subscribe, Doing
<1>2. q \in TaskState /\ q.pc = "listen" /\ q.cur = 0 /\ q.seen = task["prints"].seen
  BY <1>1 DEF TaskState, TaskStages
<1> HIDE DEF q
<1>3. "prints" \in Tasks /\ inbox' \in Seq(Nat)
  BY TaskFacts DEF Subscribe
<1>4. UNCHANGED <<ord, rowLock, avail, kids, nextId, stops, trailing, index, sent, api, hurt, overrun, last, app, pair>>
  BY DEF Subscribe, pg, queues
<1>5. q.pc \notin Doing /\ task["prints"].pc # "down" /\ q.pc # "down" /\ q.seen \in {task["prints"].seen, trailing, {}}
  BY <1>2 DEF Subscribe, Doing
<1> QED
  BY ONLY Ind, <1>1, <1>2, <1>3, <1>4, <1>5, OneTaskMoves

LEMMA ConnectionLostInd == Ind /\ ConnectionLost => Ind'
<1> SUFFICES ASSUME Ind, ConnectionLost PROVE Ind'
  OBVIOUS
<1> DEFINE q == [task["prints"] EXCEPT !.pc = "subscribe"]
<1>1. task' = [task EXCEPT !["prints"] = q] /\ task["prints"] \in TaskState /\ task["prints"].cur = 0 /\ inbox' \in Seq(Nat)
  BY TaskFacts DEF ConnectionLost, Doing
<1>2. q \in TaskState /\ q.pc = "subscribe" /\ q.cur = 0 /\ q.seen = task["prints"].seen
  BY <1>1 DEF TaskState, TaskStages
<1> HIDE DEF q
<1>3. "prints" \in Tasks /\ inbox' \in Seq(Nat)
  BY <1>1, TaskFacts
<1>4. UNCHANGED <<ord, rowLock, avail, kids, nextId, stops, trailing, index, sent, api, hurt, overrun, last, app, pair>>
  BY DEF ConnectionLost, pg, queues
<1>5. q.pc \notin Doing /\ task["prints"].pc # "down" /\ q.pc # "down" /\ q.seen \in {task["prints"].seen, trailing, {}}
  BY <1>2 DEF ConnectionLost, Doing
<1> QED
  BY ONLY Ind, <1>1, <1>2, <1>3, <1>4, <1>5, OneTaskMoves

LEMMA ReceiveInd == Ind /\ Receive => Ind'
<1> SUFFICES ASSUME Ind, Receive PROVE Ind'
  OBVIOUS
<1>1. PICK p \in {"load", "query"} : task' = [task EXCEPT !["prints"] = [NoTask EXCEPT !.price = Head(inbox), !.pc = p]]
  BY DEF Receive
<1> DEFINE q == [NoTask EXCEPT !.price = Head(inbox), !.pc = p]
<1>2. Head(inbox) \in Nat /\ inbox' \in Seq(Nat) /\ task["prints"].cur = 0
  <2>1. inbox \in Seq(Nat) /\ "prints" \in Tasks /\ (task["prints"].cur # 0 <=> task["prints"].pc \in Doing)
    BY TaskFacts
  <2>2. inbox # <<>> /\ inbox' = Tail(inbox) /\ task["prints"].pc = "listen"
    BY DEF Receive
  <2> QED
    BY ONLY <2>1, <2>2 DEF Doing
<1>3. q \in TaskState /\ q.pc = p /\ q.cur = 0 /\ q.seen = {}
  BY <1>2, NoTaskFacts DEF TaskState, TaskStages
<1>4. task' = [task EXCEPT !["prints"] = q]
  BY <1>1
<1>5. UNCHANGED <<ord, rowLock, avail, kids, nextId, stops, trailing, index, sent, api, hurt, overrun, last, app, pair>>
  BY DEF Receive, pg, queues
<1>6. task["prints"].pc # "down"
  BY DEF Receive
<1> HIDE DEF q
<1> QED
  BY <1>2, <1>3, <1>4, <1>5, <1>6, OneTaskMoves, TaskFacts DEF Doing

LEMMA TrailLoadInd == Ind /\ TrailLoad => Ind'
<1> SUFFICES ASSUME Ind, TrailLoad PROVE Ind'
  OBVIOUS
<1>1. PICK p \in {"query", "trail"} : task' = [task EXCEPT !["prints"].pc = p, !["prints"].seen = trailing]
  BY DEF TrailLoad
<1> DEFINE q == [task["prints"] EXCEPT !.pc = p, !.seen = trailing]
<1>2. task["prints"] \in TaskState /\ task["prints"].cur = 0 /\ trailing \subseteq Trail
  BY TaskFacts DEF TrailLoad, Doing
<1>3. q \in TaskState /\ q.pc = p /\ q.cur = 0 /\ q.seen = trailing
  BY <1>2 DEF TaskState, TaskStages
<1>4. task' = [task EXCEPT !["prints"] = q]
  BY <1>1, TaskFacts
<1>5. UNCHANGED <<ord, rowLock, avail, kids, nextId, stops, trailing, index, sent, api, hurt, overrun, last, app, pair, inbox>>
  BY DEF TrailLoad, pg, queues
<1>6. task["prints"].pc # "down"
  BY DEF TrailLoad
<1> HIDE DEF q
<1> QED
  BY <1>2, <1>3, <1>4, <1>5, <1>6, OneTaskMoves, TaskFacts DEF Doing

LEMMA QueryInd == Ind /\ Query => Ind'
<1> SUFFICES ASSUME Ind, Query PROVE Ind'
  OBVIOUS
<1> DEFINE p == task["prints"].price
           T == IF task["prints"].pc = "query" THEN get_all_triggered_stops(p) ELSE get_triggered_trailing_stops(p)
           b == task["prints"].pc = "query_trailing"
           q == [task["prints"] EXCEPT !.pc = "trigger", !.trail = b, !.todo = T]
<1>1. T \subseteq Ids
  BY DEF Ind, Typed, TypedRedis, get_all_triggered_stops, get_triggered_trailing_stops, Trail
<1>2. task["prints"] \in TaskState /\ task["prints"].cur = 0
  BY TaskFacts DEF Query, Doing
<1>3. task' = [task EXCEPT !["prints"] = q]
  BY TaskFacts DEF Query
<1> HIDE DEF T
<1>4. q \in TaskState /\ q.pc = "trigger" /\ q.cur = 0 /\ q.seen = task["prints"].seen
  BY <1>1, <1>2 DEF TaskState, TaskStages
<1>5. UNCHANGED <<ord, rowLock, avail, kids, nextId, stops, trailing, index, sent, api, hurt, overrun, last, app, pair, inbox>>
  BY DEF Query, pg, queues
<1>6. task["prints"].pc # "down"
  BY DEF Query
<1> HIDE DEF q
<1> QED
  BY <1>2, <1>3, <1>4, <1>5, <1>6, OneTaskMoves, TaskFacts DEF Doing

LEMMA RescanListInd == Ind /\ RescanList => Ind'
<1> SUFFICES ASSUME Ind, RescanList PROVE Ind'
  OBVIOUS
<1>1. PICK T \in SUBSET Ids : task' = [task EXCEPT !["rescan"] = [NoTask EXCEPT !.pc = "trigger", !.price = last, !.todo = T]]
  BY DEF RescanList
<1> DEFINE q == [NoTask EXCEPT !.pc = "trigger", !.price = last, !.todo = T]
<1>2. last \in Nat /\ task["rescan"].cur = 0
  BY TaskFacts DEF RescanList, Doing
<1>3. q \in TaskState /\ q.pc = "trigger" /\ q.cur = 0 /\ q.seen = {}
  BY <1>2, NoTaskFacts DEF TaskState, TaskStages
<1>4. task' = [task EXCEPT !["rescan"] = q]
  BY <1>1
<1>5. UNCHANGED <<ord, rowLock, avail, kids, nextId, stops, trailing, index, sent, api, hurt, overrun, last, app, pair, inbox>>
  BY DEF RescanList, pg, queues
<1>6. task["rescan"].pc # "down"
  BY DEF RescanList
<1> HIDE DEF q
<1> QED
  BY <1>2, <1>3, <1>4, <1>5, <1>6, OneTaskMoves, TaskFacts DEF Doing

LEMMA TriggerSkipInd ==
    ASSUME Ind, NEW t \in Tasks, TriggerSkip(t)
    PROVE  Ind'
<1>1. PICK id \in task[t].todo : task' = [task EXCEPT ![t].todo = @ \ {id}]
  BY DEF TriggerSkip
<1> DEFINE q == [task[t] EXCEPT !.todo = @ \ {id}]
<1>2. task[t] \in TaskState /\ task[t].cur = 0 /\ task[t].pc = "trigger"
  BY TaskFacts DEF TriggerSkip
<1>3. q \in TaskState /\ q.pc = "trigger" /\ q.cur = 0 /\ q.seen = task[t].seen
  BY <1>2 DEF TaskState, TaskStages
<1>4. task' = [task EXCEPT ![t] = q]
  BY <1>1, TaskFacts
<1>5. UNCHANGED <<ord, rowLock, avail, kids, nextId, stops, trailing, index, sent, api, hurt, overrun, last, app, pair, inbox>>
  BY DEF TriggerSkip, pg, queues
<1> HIDE DEF q
<1> QED
  BY <1>2, <1>3, <1>4, <1>5, OneTaskMoves, TaskFacts DEF Doing

LEMMA TriggersDoneInd ==
    ASSUME Ind, NEW t \in Tasks, TriggersDone(t)
    PROVE  Ind'
<1> DEFINE q == IF t = "rescan" THEN NoTask
                ELSE IF task[t].trail THEN [NoTask EXCEPT !.pc = "listen"]
                ELSE [task[t] EXCEPT !.pc = "query_trailing"]
<1>1. task[t] \in TaskState /\ task[t].cur = 0 /\ task[t].pc = "trigger"
  BY TaskFacts DEF TriggersDone
<1>2. /\ q \in TaskState /\ q.pc \in {"down", "listen", "query_trailing"} /\ q.cur = 0
      /\ q.seen \in {task[t].seen, {}} /\ (t = "prints" => q.pc # "down")
  BY <1>1, NoTaskFacts DEF TaskState, TaskStages
<1>3. task' = [task EXCEPT ![t] = q]
  BY DEF TriggersDone
<1>4. UNCHANGED <<ord, rowLock, avail, kids, nextId, stops, trailing, index, sent, api, hurt, overrun, last, app, pair, inbox>>
  BY DEF TriggersDone, pg, queues
<1> HIDE DEF q
<1> QED
  BY <1>1, <1>2, <1>3, <1>4, OneTaskMoves, TaskFacts DEF Doing

-----------------------------------------------------------------------------
(* A trigger.                                                              *)

LEMMA TriggerEnqueueInd ==
    ASSUME Ind, NEW t \in Tasks, TriggerEnqueue(t)
    PROVE  Ind'
<1> USE DEF Ind
<1> DEFINE id == task[t].cur
<1>1. UNCHANGED <<ord, rowLock, avail, kids, nextId, stops, trailing, inbox, last, app, pair, api, hurt, overrun>>
  BY DEF TriggerEnqueue, pg
<1>2. /\ task \in [Tasks -> TaskState] /\ task[t].pc = "enqueue" /\ id \in Ids
      /\ task' = [task EXCEPT ![t].pc = "unregister"]
  <2>1. task \in [Tasks -> TaskState] /\ task[t].pc = "enqueue" /\ task' = [task EXCEPT ![t].pc = "unregister"]
    BY TaskFacts DEF TriggerEnqueue
  <2>2. id # 0 /\ id \in 0 .. MaxOrders
    BY <2>1, TaskFacts DEF Doing, TaskState
  <2> QED
    BY <2>1, <2>2, StopMonitorAssumption DEF Ids
<1>3. /\ task' \in [Tasks -> TaskState] /\ task'[t].pc = "unregister"
      /\ \A u \in Tasks : task'[u].cur = task[u].cur /\ task'[u].seen = task[u].seen
      /\ \A u \in Tasks : task'[u].pc = task[u].pc \/ (task[u].pc \in Doing /\ task'[u].pc = "unregister" /\ u = t)
  BY <1>2 DEF TaskState, TaskStages, Doing
<1>4. Child(id) \in 1 .. 2 * MaxOrders /\ Child(id) \notin Ids /\ Ids \subseteq 1 .. 2 * MaxOrders
  BY <1>2, StopMonitorAssumption DEF Child, Ids
<1>5. /\ index' = index \cup {Child(id)} /\ sent' \in [1 .. 2 * MaxOrders -> Nat]
      /\ \A k \in Ids : sent'[k] = sent[k]
  BY <1>4 DEF TriggerEnqueue, Typed, TypedRedis
<1> HIDE DEF id
<1>6. Typed'
  BY <1>1, <1>3, <1>4, <1>5 DEF Typed, TypedPg, TypedRedis, TypedActors
<1>7. Drawn'
  BY <1>1 DEF Drawn
<1>8. Held'
  <2>1. \A u \in Tasks : task'[u].cur # 0 <=> task'[u].pc \in Doing
    BY <1>3 DEF Held, Doing
  <2>2. task["prints"].pc # "down"
    BY <1>2, TaskFacts
  <2>3. task'["prints"].pc # "down" /\ app.up
    BY <1>3, <2>2, TaskFacts
  <2> QED
    BY <1>1, <1>3, <2>1, <2>3 DEF Held
<1>9. (\A k \in Ids : ChildrenOf(k))'
  BY <1>1 DEF ChildrenOf
<1>10. SentOnce'
  <2>1. \A c \in Clients : DOMAIN api[c].rows \subseteq Ids
    BY DEF Typed, TypedActors, IsRequest
  <2> QED
    BY <1>1, <1>5, <2>1 DEF SentOnce
<1>11. TrailsAgree'
  BY <1>1, <1>3, TaskFacts DEF TrailsAgree
<1>12. Registered'
  <2>1. \A u \in Tasks : task[u].pc = "commit" => task'[u].pc = "commit"
    BY <1>2, <1>3
  <2> QED
    BY <1>1, <1>3, <1>5, <2>1 DEF Registered, InQueue
<1>13. LimitsRead'
  BY <1>1 DEF LimitsRead
<1>14. FundsExact'
  <2>1. Committed' = Committed /\ InFlight' = InFlight /\ PlacedBy' = PlacedBy
    BY <1>1, <1>3 DEF Committed, InFlight, PlacedBy, Placing
  <2> QED
    BY <1>1, <2>1, FundsKept
<1> QED
  BY <1>6, <1>7, <1>8, <1>9, <1>10, <1>11, <1>12, <1>13, <1>14

LEMMA TriggerUnregisterInd ==
    ASSUME Ind, NEW t \in Tasks, TriggerUnregister(t)
    PROVE  Ind'
<1> USE DEF Ind
<1> DEFINE id == task[t].cur
<1>1. UNCHANGED <<ord, rowLock, avail, kids, nextId, index, sent, inbox, last, app, pair, api, hurt, overrun>>
  BY DEF TriggerUnregister, pg
<1>2. /\ task \in [Tasks -> TaskState] /\ task[t].pc = "unregister" /\ id \in Ids
      /\ task' = [task EXCEPT ![t].pc = "commit"]
  <2>1. task \in [Tasks -> TaskState] /\ task[t].pc = "unregister" /\ task' = [task EXCEPT ![t].pc = "commit"]
    BY TaskFacts DEF TriggerUnregister
  <2>2. id # 0 /\ id \in 0 .. MaxOrders
    BY <2>1, TaskFacts DEF Doing, TaskState
  <2> QED
    BY <2>1, <2>2, StopMonitorAssumption DEF Ids
<1>3. /\ task' \in [Tasks -> TaskState] /\ task'[t].pc = "commit"
      /\ \A u \in Tasks : task'[u].cur = task[u].cur /\ task'[u].seen = task[u].seen
      /\ \A u \in Tasks : task'[u].pc = task[u].pc \/ (task[u].pc \in Doing /\ task'[u].pc = "commit" /\ u = t)
  BY <1>2 DEF TaskState, TaskStages, Doing
<1>4. /\ stops' \subseteq stops /\ trailing' \subseteq trailing
      /\ \A e \in stops : e.id # id => e \in stops'
      /\ \A e \in trailing : e.id # id => e \in trailing'
  BY DEF TriggerUnregister, unregister
<1>5. Typed'
  BY <1>1, <1>3, <1>4 DEF Typed, TypedPg, TypedRedis, TypedActors
<1>7. Drawn'
  BY <1>1 DEF Drawn
<1>8. Held'
  <2>1. \A u \in Tasks : task'[u].cur # 0 <=> task'[u].pc \in Doing
    BY <1>3 DEF Held, Doing
  <2>2. task["prints"].pc # "down"
    BY <1>2, TaskFacts
  <2>3. task'["prints"].pc # "down" /\ app.up
    BY <1>3, <2>2, TaskFacts
  <2> QED
    BY <1>1, <1>3, <2>1, <2>3 DEF Held
<1>9. (\A k \in Ids : ChildrenOf(k))'
  BY <1>1 DEF ChildrenOf
<1>10. SentOnce'
  BY <1>1 DEF SentOnce
<1>11. TrailsAgree'
  BY <1>1, <1>3, <1>4, TaskFacts DEF TrailsAgree
<1>12. Registered'
  <2>1. \A u \in Tasks : task[u].pc = "commit" => task'[u].pc = "commit"
    BY <1>2, <1>3
  <2> DEFINE Later(k, o) == k \in index' /\ \E e \in (IF o.type = "trailing_stop" THEN trailing' ELSE stops') : e.id = k
  <2>2. \A k, o : k # id /\ InQueue(k, o) => Later(k, o)
    BY <1>1, <1>4 DEF InQueue
  <2>3. \A c \in Clients : id \notin DOMAIN api[c].rows
    <3>1. ord[id].status = "pending"
      BY <1>2, StopMonitorAssumption DEF Held, Ids
    <3> QED
      BY <3>1 DEF Drawn
  <2>4. task'[t].cur = id /\ task'[t].pc = "commit"
    BY <1>3
  <2> HIDE DEF id, Later
  <2>5. \A c \in Clients : \A k \in DOMAIN api[c].rows \ api[c].todo :
           LET o == api[c].rows[k] IN o.parent = 0 /\ IsStop(o) => Later(k, o)
    BY <2>2, <2>3 DEF Registered
  <2>6. \A k \in Ids \ hurt : ord[k].status = "pending" /\ ord[k].parent = 0 =>
           \/ Later(k, ord[k])
           \/ \E u \in Tasks : task'[u].cur = k /\ task'[u].pc = "commit"
           \/ \E c \in Clients : k \in api[c].done
    BY <1>3, <2>1, <2>2, <2>4 DEF Registered
  <2> QED
    BY <1>1, <2>5, <2>6 DEF Registered, InQueue, Later
<1>13. LimitsRead'
  BY <1>1 DEF LimitsRead
<1>14. FundsExact'
  <2>1. Committed' = Committed /\ InFlight' = InFlight /\ PlacedBy' = PlacedBy
    BY <1>1, <1>3 DEF Committed, InFlight, PlacedBy, Placing
  <2> QED
    BY <1>1, <2>1, FundsKept
<1> QED
  BY <1>5, <1>7, <1>8, <1>9, <1>10, <1>11, <1>12, <1>13, <1>14

LEMMA TriggerLockInd ==
    ASSUME Ind, NEW t \in Tasks, TriggerLock(t)
    PROVE  Ind'
<1> USE DEF Ind
<1>1. PICK id \in task[t].todo :
        /\ task[t].pc = "trigger" /\ task[t].cur = 0 /\ rowLock[id] = NoOne
        /\ ord[id].status = "pending" /\ avail > 0
        /\ rowLock' = [rowLock EXCEPT ![id] = t] /\ avail' = avail - 1
        /\ task' = [task EXCEPT ![t].todo = @ \ {id}, ![t].cur = id, ![t].pc = "enqueue"]
  BY DEF TriggerLock, StillPending, Fundable
<1>2. UNCHANGED <<ord, kids, nextId, stops, trailing, index, sent, inbox, last, app, pair, api, hurt, overrun>>
  BY DEF TriggerLock, queues, market
<1>3. task \in [Tasks -> TaskState] /\ id \in Ids /\ id \in 0 .. MaxOrders /\ id # 0
  <2>1. task \in [Tasks -> TaskState] /\ task[t] \in TaskState
    BY TaskFacts
  <2>2. task[t].todo \subseteq Ids
    BY ONLY <2>1 DEF TaskState
  <2> QED
    BY ONLY <1>1, <2>1, <2>2, StopMonitorAssumption DEF Ids
<1> DEFINE q == [task[t] EXCEPT !.todo = @ \ {id}, !.cur = id, !.pc = "enqueue"]
<1>4. q \in TaskState /\ q.pc = "enqueue" /\ q.cur = id /\ q.seen = task[t].seen
  BY <1>3 DEF TaskState, TaskStages, Doing
<1>5. task' = [task EXCEPT ![t] = q]
  BY <1>1, <1>3
<1> HIDE DEF q
<1>6. /\ task' \in [Tasks -> TaskState] /\ task'[t] = q
      /\ \A u \in Tasks \ {t} : task'[u] = task[u]
      /\ task'["prints"].seen = task["prints"].seen
  BY <1>3, <1>4, <1>5, TaskFacts
<1>7. /\ rowLock' \in [Ids -> {NoOne} \cup Clients \cup Tasks] /\ rowLock'[id] = t
      /\ \A k \in Ids \ {id} : rowLock'[k] = rowLock[k]
  BY <1>1, <1>3 DEF Typed, TypedPg
<1>8. Typed'
  <2>1. TypedPg /\ TypedRedis /\ TypedActors
    BY DEF Typed
  <2>2. TypedPg'
    BY ONLY <1>1, <1>2, <1>7, <2>1 DEF TypedPg
  <2>3. TypedRedis'
    BY ONLY <1>2, <2>1 DEF TypedRedis
  <2>4. TypedActors'
    BY ONLY <1>2, <1>6, <2>1 DEF TypedActors
  <2> QED
    BY ONLY <2>2, <2>3, <2>4 DEF Typed
<1>9. Drawn'
  BY <1>2 DEF Drawn
<1>10. Held'
  <2>1. \A k \in Ids, c \in Clients : rowLock'[k] = c <=> k \in api[c].done
    BY <1>1, <1>3, <1>7, StopMonitorAssumption DEF Held
  <2>2. \A k \in Ids, u \in Tasks : rowLock'[k] = u <=> task'[u].cur = k
    <3> SUFFICES ASSUME NEW k \in Ids, NEW u \in Tasks PROVE rowLock'[k] = u <=> task'[u].cur = k
      OBVIOUS
    <3>1. CASE k = id
      BY <3>1, <1>1, <1>4, <1>6, <1>7, StopMonitorAssumption DEF Held
    <3>2. CASE k # id
      <4>1. rowLock'[k] = rowLock[k] /\ (rowLock[k] = u <=> task[u].cur = k) /\ k # 0
        BY <3>2, <1>7, StopMonitorAssumption DEF Held, Ids
      <4> QED
        BY <3>2, <4>1, <1>1, <1>4, <1>6
    <3> QED
      BY <3>1, <3>2
  <2>3. \A u \in Tasks : task'[u].cur # 0 <=> task'[u].pc \in Doing
    BY <1>3, <1>4, <1>6 DEF Held, Doing
  <2>4. \A u \in Tasks : task'[u].cur # 0 => ord[task'[u].cur].status = "pending"
    BY <1>1, <1>4, <1>6 DEF Held
  <2>5. task["prints"].pc # "down"
    BY <1>1, TaskFacts
  <2>6. task'["prints"].pc # "down"
    BY <2>5, <1>4, <1>6, TaskFacts
  <2>7. app.up
    BY <2>5, TaskFacts
  <2> QED
    BY <1>2, <2>1, <2>2, <2>3, <2>4, <2>6, <2>7 DEF Held
<1>11. (\A k \in Ids : ChildrenOf(k))'
  BY <1>2 DEF ChildrenOf
<1>12. SentOnce'
  BY <1>2 DEF SentOnce
<1>13. TrailsAgree'
  BY <1>2, <1>6 DEF TrailsAgree
<1>14. Registered'
  <2>1. \A u \in Tasks : task[u].pc = "commit" => task'[u] = task[u]
    BY <1>1, <1>6
  <2> QED
    BY <1>2, <2>1 DEF Registered, InQueue
<1>15. LimitsRead'
  BY <1>2 DEF LimitsRead
<1>16. FundsExact'
  <2>1. Committed' = Committed /\ PlacedBy' = PlacedBy
    BY <1>2 DEF Committed, PlacedBy, Placing
  <2>2. InFlight' = InFlight \cup {t} /\ t \notin InFlight
    BY <1>1, <1>3, <1>4, <1>6 DEF InFlight
  <2>3. Cardinality(InFlight') = Cardinality(InFlight) + 1
    BY <2>2, FS_AddElement, Numbers
  <2> QED
    BY <1>1, <1>2, <2>1, <2>3, FundsForm, Numbers
<1> QED
  BY <1>8, <1>9, <1>10, <1>11, <1>12, <1>13, <1>14, <1>15, <1>16

\* A task that ends its transaction lets its row go.
LEMMA TaskLetsGo ==
    ASSUME Ind, NEW t \in Tasks, task[t].cur # 0, rowLock' = Unlock(t),
           task' = [task EXCEPT ![t].pc = "trigger", ![t].cur = 0]
    PROVE  /\ task[t].cur \in Ids /\ task' \in [Tasks -> TaskState]
           /\ task'[t].cur = 0 /\ task'[t].pc = "trigger" /\ task'[t].seen = task[t].seen
           /\ \A u \in Tasks \ {t} : task'[u] = task[u]
           /\ \A u \in Tasks \ {t} : task[u].cur # task[t].cur
           /\ rowLock' \in [Ids -> {NoOne} \cup Clients \cup Tasks]
           /\ \A k \in Ids \ {task[t].cur} : rowLock'[k] = rowLock[k]
           /\ rowLock'[task[t].cur] = NoOne /\ rowLock[task[t].cur] = t
           /\ \A k \in Ids, c \in Clients : rowLock'[k] = c <=> k \in api[c].done
           /\ \A k \in Ids, u \in Tasks : rowLock'[k] = u <=> task'[u].cur = k
           /\ \A u \in Tasks : task'[u].cur # 0 <=> task'[u].pc \in Doing
           /\ task'["prints"].seen = task["prints"].seen
           /\ task["prints"].pc # "down" /\ task'["prints"].pc # "down" /\ app.up
           /\ InFlight' = InFlight \ {t} /\ t \in InFlight
<1> USE DEF Ind
<1> DEFINE id == task[t].cur
<1>1. task \in [Tasks -> TaskState] /\ id \in Ids /\ id # 0
  <2>1. task \in [Tasks -> TaskState] /\ task[t] \in TaskState /\ id # 0
    BY TaskFacts
  <2>2. id \in 0 .. MaxOrders
    BY ONLY <2>1 DEF TaskState
  <2> QED
    BY ONLY <2>1, <2>2, StopMonitorAssumption DEF Ids
<1> DEFINE q == [task[t] EXCEPT !.pc = "trigger", !.cur = 0]
<1>2. q \in TaskState /\ q.pc = "trigger" /\ q.cur = 0 /\ q.seen = task[t].seen
  BY <1>1, StopMonitorAssumption DEF TaskState, TaskStages
<1>3. task' = [task EXCEPT ![t] = q]
  BY <1>1
<1> HIDE DEF q
<1>4. /\ task' \in [Tasks -> TaskState] /\ task'[t] = q
      /\ \A u \in Tasks \ {t} : task'[u] = task[u]
      /\ task'["prints"].seen = task["prints"].seen
  <2>1. "prints" \in Tasks
    BY TaskFacts
  <2>2. task \in [Tasks -> TaskState] /\ q \in TaskState /\ q.seen = task[t].seen
    BY ONLY <1>1, <1>2
  <2>3. /\ task' \in [Tasks -> TaskState] /\ task'[t] = q
        /\ \A u \in Tasks \ {t} : task'[u] = task[u]
    BY ONLY <1>3, <2>2, t \in Tasks
  <2> QED
    BY ONLY <2>1, <2>2, <2>3, t \in Tasks
<1>5. \A k \in Ids, u \in Tasks : rowLock[k] = u <=> task[u].cur = k
  BY DEF Held
<1>6. \A k \in Ids : rowLock'[k] = IF k = id THEN NoOne ELSE rowLock[k]
  BY <1>1, <1>5 DEF Unlock
<1>7. rowLock' \in [Ids -> {NoOne} \cup Clients \cup Tasks]
  BY <1>6 DEF Unlock, Typed, TypedPg
<1>8. rowLock[id] = t /\ t \notin Clients /\ NoOne \notin Clients /\ NoOne \notin Tasks
  BY <1>1, <1>5, StopMonitorAssumption
<1>9. \A u \in Tasks \ {t} : task[u].cur # id
  BY <1>1, <1>5, <1>8
<1>10. \A k \in Ids, c \in Clients : rowLock'[k] = c <=> k \in api[c].done
  BY <1>1, <1>6, <1>8 DEF Held
<1>11. \A k \in Ids, u \in Tasks : rowLock'[k] = u <=> task'[u].cur = k
  <2> SUFFICES ASSUME NEW k \in Ids, NEW u \in Tasks PROVE rowLock'[k] = u <=> task'[u].cur = k
    OBVIOUS
  <2>1. k # 0 /\ k \in Int
    BY StopMonitorAssumption DEF Ids
  <2>2. CASE u = t
    BY <2>1, <2>2, <1>2, <1>4, <1>5, <1>6, <1>8
  <2>3. CASE u # t
    <3>1. task'[u] = task[u]
      BY <2>3, <1>4
    <3> QED
      BY <3>1, <2>3, <1>5, <1>6, <1>8, <1>9
  <2> QED
    BY <2>2, <2>3
<1>12. \A u \in Tasks : task'[u].cur # 0 <=> task'[u].pc \in Doing
  BY <1>2, <1>4, TaskFacts DEF Doing
<1>13. task["prints"].pc # "down"
  BY TaskFacts DEF Doing
<1>14. task'["prints"].pc # "down" /\ app.up
  BY <1>13, <1>2, <1>4, TaskFacts
<1>15. InFlight' = InFlight \ {t} /\ t \in InFlight
  BY <1>2, <1>4 DEF InFlight
<1> QED
  BY <1>1, <1>2, <1>4, <1>6, <1>7, <1>8, <1>9, <1>10, <1>11, <1>12, <1>13, <1>14, <1>15

\* What is registered stays so while the queues and the requests are left alone.
LEMMA RegisteredKept ==
    ASSUME Registered, UNCHANGED <<stops, trailing, index, api>>,
           \A k \in Ids \ hurt' : ord'[k].status = "pending" /\ ord'[k].parent = 0 =>
               /\ k \notin hurt /\ ord[k].status = "pending" /\ ord[k].parent = 0 /\ ord'[k].type = ord[k].type
               /\ \A u \in Tasks : task[u].cur = k /\ task[u].pc = "commit" => task'[u].cur = k /\ task'[u].pc = "commit"
    PROVE  Registered'
<1>1. \A c \in Clients : \A id \in DOMAIN api'[c].rows \ api'[c].todo :
          LET o == api'[c].rows[id]
          IN  o.parent = 0 /\ IsStop(o) =>
              id \in index' /\ \E e \in (IF o.type = "trailing_stop" THEN trailing' ELSE stops') : e.id = id
  BY DEF Registered, InQueue
<1>2. ASSUME NEW k \in Ids \ hurt', ord'[k].status = "pending", ord'[k].parent = 0
      PROVE  \/ k \in index' /\ \E e \in (IF ord'[k].type = "trailing_stop" THEN trailing' ELSE stops') : e.id = k
             \/ \E u \in Tasks : task'[u].cur = k /\ task'[u].pc = "commit"
             \/ \E c \in Clients : k \in api'[c].done
  <2>1. /\ k \in Ids \ hurt /\ ord[k].status = "pending" /\ ord[k].parent = 0 /\ ord'[k].type = ord[k].type
        /\ \A u \in Tasks : task[u].cur = k /\ task[u].pc = "commit" => task'[u].cur = k /\ task'[u].pc = "commit"
    BY <1>2
  <2>2. \/ InQueue(k, ord[k])
        \/ \E u \in Tasks : task[u].cur = k /\ task[u].pc = "commit"
        \/ \E c \in Clients : k \in api[c].done
    BY <2>1 DEF Registered
  <2> QED
    BY <2>1, <2>2 DEF InQueue
<1> QED
  BY <1>1, <1>2 DEF Registered, InQueue

LEMMA TriggerCommitInd ==
    ASSUME Ind, NEW t \in Tasks, TriggerCommit(t)
    PROVE  Ind'
<1> USE DEF Ind
<1>0. PICK id : id = task[t].cur
  OBVIOUS
<1>1. /\ task[t].pc = "commit" /\ rowLock' = Unlock(t)
      /\ task' = [task EXCEPT ![t].pc = "trigger", ![t].cur = 0]
      /\ ord' = [ord EXCEPT ![id].status = "filled"] /\ kids' = [kids EXCEPT ![id] = @ + 1]
      /\ UNCHANGED <<avail, nextId, stops, trailing, index, sent, inbox, last, app, pair, api, hurt, overrun>>
  BY <1>0 DEF TriggerCommit, queues, market
<1>2. task[t].cur # 0
  BY <1>1, TaskFacts DEF Doing
<1>3. /\ id \in Ids /\ task' \in [Tasks -> TaskState] /\ task'[t].cur = 0 /\ task'[t].pc = "trigger"
      /\ \A u \in Tasks \ {t} : task'[u] = task[u]
      /\ \A u \in Tasks \ {t} : task[u].cur # id
      /\ rowLock' \in [Ids -> {NoOne} \cup Clients \cup Tasks]
      /\ rowLock[id] = t
      /\ \A k \in Ids, c \in Clients : rowLock'[k] = c <=> k \in api[c].done
      /\ \A k \in Ids, u \in Tasks : rowLock'[k] = u <=> task'[u].cur = k
      /\ \A u \in Tasks : task'[u].cur # 0 <=> task'[u].pc \in Doing
      /\ task'["prints"].seen = task["prints"].seen
      /\ task'["prints"].pc # "down" /\ app.up
      /\ InFlight' = InFlight \ {t} /\ t \in InFlight
  BY <1>0, <1>1, <1>2, TaskLetsGo
<1>4. /\ ord[id].status = "pending" /\ IsStop(ord[id]) /\ kids[id] = 0 /\ ord[id] \in OrderRow
      /\ kids[id] \in Nat
  <2>1. ord[id].status = "pending"
    BY <1>0, <1>2 DEF Held
  <2> QED
    BY <2>1, <1>3 DEF ChildrenOf, Typed, TypedPg
<1> DEFINE o == [ord[id] EXCEPT !.status = "filled"]
<1>5. /\ o \in OrderRow /\ o.status = "filled" /\ o.type = ord[id].type /\ o.parent = ord[id].parent
      /\ o.side = ord[id].side /\ o.stop = ord[id].stop
  BY <1>4 DEF OrderRow, Statuses
<1>6. ord' = [ord EXCEPT ![id] = o]
  BY <1>1, <1>3 DEF Typed, TypedPg
<1> HIDE DEF o
<1>7. /\ ord' \in [Ids -> OrderRow] /\ ord'[id] = o /\ \A k \in Ids \ {id} : ord'[k] = ord[k]
      /\ kids' \in [Ids -> Nat] /\ kids'[id] = 1 /\ \A k \in Ids \ {id} : kids'[k] = kids[k]
  BY <1>1, <1>3, <1>4, <1>5, <1>6 DEF Typed, TypedPg
<1>8. Typed'
  BY <1>1, <1>3, <1>7 DEF Typed, TypedPg, TypedRedis, TypedActors
<1>9. Drawn'
  BY <1>1, <1>4, <1>7 DEF Drawn
<1>10. Held'
  <2>1. \A c \in Clients : id \notin api[c].done
    BY <1>3, StopMonitorAssumption DEF Held
  <2>2. \A u \in Tasks : task'[u].cur # 0 => ord'[task'[u].cur].status = "pending"
    <3> SUFFICES ASSUME NEW u \in Tasks, task'[u].cur # 0 PROVE ord'[task'[u].cur].status = "pending"
      OBVIOUS
    <3>1. u # t /\ task'[u] = task[u] /\ task[u].cur # id /\ task[u].cur # 0
      BY <1>3
    <3>2. task[u].cur \in Ids
      BY <3>1, TaskFacts, StopMonitorAssumption DEF TaskState, Ids
    <3> QED
      BY <3>1, <3>2, <1>7 DEF Held
  <2>3. \A c \in Clients : api[c].cur # 0 => api[c].cur \in Ids
    BY StopMonitorAssumption DEF Typed, TypedActors, IsRequest, Ids
  <2>4. \A c \in Clients : api[c].cur # 0 => ord'[api[c].cur].status # "none"
    BY <2>3, <1>5, <1>7 DEF Held
  <2>5. \A c \in Clients : api[c].done \subseteq Ids
    BY DEF Typed, TypedActors, IsRequest
  <2>6. \A c \in Clients : \A k \in api[c].done : ord'[k] = ord[k]
    BY <2>1, <2>5, <1>7
  <2>7. \A c \in Clients : \A k \in api[c].done :
           ord'[k].status # "none" /\ (ord'[k].status = "filled" /\ IsStop(ord'[k]) => k \in overrun)
    BY <2>6 DEF Held
  <2>8. api' = api /\ app' = app /\ overrun' = overrun
    BY ONLY <1>1
  <2>9. \A c \in Clients : /\ \A k \in api'[c].done : ord'[k].status # "none"
                          /\ \A k \in api'[c].done : ord'[k].status = "filled" /\ IsStop(ord'[k]) => k \in overrun'
    BY ONLY <2>7, <2>8
  <2>10. /\ \A k \in Ids, c \in Clients : rowLock'[k] = c <=> k \in api'[c].done
         /\ \A k \in Ids, u \in Tasks : rowLock'[k] = u <=> task'[u].cur = k
         /\ \A u \in Tasks : task'[u].cur # 0 <=> task'[u].pc \in Doing
         /\ task'["prints"].pc # "down" /\ app'.up
    BY ONLY <1>3, <2>8
  <2>11. \A c \in Clients : api'[c].cur # 0 => ord'[api'[c].cur].status # "none"
    BY ONLY <2>4, <2>8
  <2> QED
    BY ONLY <2>2, <2>9, <2>10, <2>11, Zenon DEF Held, IsStop
<1>11. (\A k \in Ids : ChildrenOf(k))'
  <2>1. \A k \in Ids \ {id} : ChildrenOf(k)'
    BY <1>1, <1>7 DEF ChildrenOf
  <2>2. IsStop(o)
    BY <1>4, <1>5 DEF IsStop
  <2>3. ChildrenOf(id)'
    BY <1>1, <1>5, <1>7, <2>2 DEF ChildrenOf, IsStop
  <2> QED
    BY <2>1, <2>3
<1>12. SentOnce'
  BY <1>1, <1>3, <1>4, <1>5, <1>7 DEF SentOnce
<1>13. TrailsAgree'
  <2>1. TrailsAgree
    OBVIOUS
  <2>2. trailing' = trailing /\ nextId' = nextId /\ api' = api
    BY ONLY <1>1
  <2>3. PICK seen : seen = task["prints"].seen
    OBVIOUS
  <2>4. seen = task'["prints"].seen
    BY ONLY <1>3, <2>3
  <2>5. /\ \A e, f \in trailing : e.id = f.id => e = f
        /\ \A e, f \in seen : e.id = f.id => e = f
        /\ \A e \in seen, f \in trailing : e.id = f.id => e = f
        /\ \A e \in seen \cup trailing : e.id < nextId
        /\ \A c \in Clients : \A e \in seen \cup trailing : api[c].pc = "register" => e.id \notin api[c].todo
    BY ONLY <2>1, <2>3, Zenon DEF TrailsAgree
  <2> QED
    BY ONLY <2>2, <2>4, <2>5, Zenon DEF TrailsAgree
<1>14. Registered'
  <2>1. \A u \in Tasks, k \in Ids \ {id} : task[u].cur = k => task'[u] = task[u]
    BY <1>0, <1>3
  <2>2. \A k \in Ids : ord'[k].status = "pending" => k # id /\ ord'[k] = ord[k]
    BY <1>5, <1>7
  <2> QED
    BY <1>1, <2>1, <2>2, RegisteredKept
<1>15. LimitsRead'
  BY <1>1, <1>4, <1>5, <1>7 DEF LimitsRead, IsStop
<1>16. FundsExact'
  <2>1. PlacedBy' = PlacedBy
    BY <1>1 DEF PlacedBy, Placing
  <2>2. Committed' = Committed
    BY <1>4, <1>5, <1>7 DEF Committed, IsStop
  <2>3. Cardinality(InFlight') = Cardinality(InFlight) - 1
    BY <1>3, FS_RemoveElement, Numbers
  <2>4. SumFunction(kids') = SumFunction(kids) + 1
    <3>1. IsFiniteSet(Ids) /\ DOMAIN kids = Ids /\ DOMAIN kids' = Ids
      BY Finite, <1>7 DEF Typed, TypedPg
    <3>2. \A x \in Ids : kids[x] \in Int /\ kids'[x] \in Int
      BY <1>7 DEF Typed, TypedPg
    <3>3. SumFunctionOnSet(kids', Ids) = SumFunctionOnSet(kids, Ids) + kids'[id] - kids[id]
      BY <1>3, <1>7, <3>1, <3>2, SumChange
    <3>4. SumFunctionOnSet(kids, Ids) \in Int
      BY <3>1, <3>2, SumInt
    <3> QED
      BY <3>1, <3>3, <3>4, <1>4, <1>7 DEF SumFunction
  <2> QED
    BY <1>1, <2>1, <2>2, <2>3, <2>4, FundsForm, Numbers
<1> QED
  BY <1>8, <1>9, <1>10, <1>11, <1>12, <1>13, <1>14, <1>15, <1>16

LEMMA TriggerFailsInd ==
    ASSUME Ind, NEW t \in Tasks, TriggerFails(t)
    PROVE  Ind'
<1> USE DEF Ind
<1>0. PICK id : id = task[t].cur
  OBVIOUS
<1>1. /\ task[t].cur # 0 /\ rowLock' = Unlock(t)
      /\ task' = [task EXCEPT ![t].pc = "trigger", ![t].cur = 0]
      /\ avail' = avail + 1 /\ hurt' = hurt \cup {id}
      /\ UNCHANGED <<ord, kids, nextId, stops, trailing, index, sent, inbox, last, app, pair, api, overrun>>
  BY <1>0 DEF TriggerFails, queues, market
<1>2. /\ id \in Ids /\ task' \in [Tasks -> TaskState] /\ task'[t].cur = 0 /\ task'[t].pc = "trigger"
      /\ \A u \in Tasks \ {t} : task'[u] = task[u]
      /\ rowLock' \in [Ids -> {NoOne} \cup Clients \cup Tasks]
      /\ \A k \in Ids, c \in Clients : rowLock'[k] = c <=> k \in api[c].done
      /\ \A k \in Ids, u \in Tasks : rowLock'[k] = u <=> task'[u].cur = k
      /\ \A u \in Tasks : task'[u].cur # 0 <=> task'[u].pc \in Doing
      /\ task'["prints"].seen = task["prints"].seen
      /\ task'["prints"].pc # "down" /\ app.up
      /\ InFlight' = InFlight \ {t} /\ t \in InFlight
  BY <1>0, <1>1, TaskLetsGo
<1>3. Typed'
  BY <1>1, <1>2 DEF Typed, TypedPg, TypedRedis, TypedActors
<1>4. Drawn'
  BY <1>1 DEF Drawn
<1>5. Held'
  <2>1. \A u \in Tasks : task'[u].cur # 0 => ord[task'[u].cur].status = "pending"
    BY <1>2 DEF Held
  <2> QED
    BY <1>1, <1>2, <2>1 DEF Held
<1>6. (\A k \in Ids : ChildrenOf(k))'
  BY <1>1 DEF ChildrenOf
<1>7. SentOnce'
  BY <1>1 DEF SentOnce
<1>8. TrailsAgree'
  BY <1>1, <1>2 DEF TrailsAgree
<1>9. Registered'
  <2>1. \A u \in Tasks, k \in Ids \ {id} : task[u].cur = k => task'[u] = task[u]
    BY <1>0, <1>2
  <2> QED
    BY <1>1, <2>1, RegisteredKept
<1>10. LimitsRead'
  BY <1>1 DEF LimitsRead
<1>11. FundsExact'
  <2>1. Committed' = Committed /\ PlacedBy' = PlacedBy
    BY <1>1 DEF Committed, PlacedBy, Placing
  <2>2. Cardinality(InFlight') = Cardinality(InFlight) - 1
    BY <1>2, FS_RemoveElement, Numbers
  <2> QED
    BY <1>1, <2>1, <2>2, FundsForm, Numbers
<1> QED
  BY <1>3, <1>4, <1>5, <1>6, <1>7, <1>8, <1>9, <1>10, <1>11

-----------------------------------------------------------------------------
(* Trailing stops.                                                         *)

\* What the monitor writes back for a trailing stop it has loaded.
Stored(e, price) == IF e.id \in {x.id : x \in trailing} THEN Trailed(e, price)
                    ELSE [Trailed(e, price) EXCEPT !.side = "none", !.delta = 0]

LEMMA StoredTrail ==
    ASSUME NEW e \in Trail, NEW price \in Nat
    PROVE  /\ Stored(e, price) \in Trail /\ Stored(e, price).id = e.id
           /\ Trailed(e, price) \in Trail /\ Trailed(e, price).id = e.id
           /\ Trailed(e, price).at = IF e.side = "sell" THEN price - e.delta ELSE price + e.delta
<1> DEFINE a == IF e.side = "sell" THEN price - e.delta ELSE price + e.delta
           f == [e EXCEPT !.extreme = price, !.at = a]
           g == [f EXCEPT !.side = "none", !.delta = 0]
<1>1. a \in Int /\ price \in Int
  BY DEF Trail
<1> HIDE DEF a
<1>2. f \in Trail /\ f.id = e.id /\ f.at = a
  BY <1>1 DEF Trail
<1> HIDE DEF f
<1>3. g \in Trail /\ g.id = f.id
  <2> DEFINE h == [f EXCEPT !.side = "none"]
  <2>1. h \in Trail /\ h.id = f.id
    BY <1>2 DEF Trail
  <2>2. g = [h EXCEPT !.delta = 0]
    BY <1>2 DEF Trail
  <2> HIDE DEF h, g
  <2>3. [h EXCEPT !.delta = 0] \in Trail /\ [h EXCEPT !.delta = 0].id = h.id
    BY <2>1 DEF Trail
  <2> QED
    BY <2>1, <2>2, <2>3
<1>4. f = Trailed(e, price)
  BY DEF Trailed, f, a
<1>5. Stored(e, price) \in {f, g}
  BY <1>4 DEF Stored
<1> QED
  BY <1>2, <1>3, <1>4, <1>5 DEF a

\* What the write of the trailing states leaves.
LEMMA TrailStoreFacts ==
    ASSUME Ind, TrailStore
    PROVE  LET seen == task["prints"].seen
               price == task["prints"].price
           IN  /\ price \in Nat
               /\ \A f \in trailing' : \/ f \in trailing /\ \A m \in seen : Trails(m, price) => m.id # f.id
                                       \/ \E m \in seen : Trails(m, price) /\ f = Stored(m, price)
               /\ \A e \in trailing : \E f \in trailing' : f.id = e.id
               /\ trailing' \subseteq Trail
<1> DEFINE seen == task["prints"].seen
           price == task["prints"].price
           moved == {e \in seen : Trails(e, price)}
<1>1. task["prints"] \in TaskState
  BY TaskFacts
<1>2. price \in Nat /\ seen \subseteq Trail
  BY <1>1 DEF TaskState
<1>3. trailing' = {e \in trailing : \A m \in moved : m.id # e.id} \cup {Stored(e, price) : e \in moved}
  BY DEF TrailStore, Stored
<1> HIDE DEF seen, price
<1>4. \A m \in moved : Stored(m, price) \in Trail /\ Stored(m, price).id = m.id
  BY <1>2, StoredTrail
<1>5. \A e \in trailing : \E f \in trailing' : f.id = e.id
  <2> SUFFICES ASSUME NEW e \in trailing PROVE \E f \in trailing' : f.id = e.id
    OBVIOUS
  <2>1. CASE \E m \in moved : m.id = e.id
    <3>1. PICK m \in moved : m.id = e.id
      BY <2>1
    <3> QED
      BY <3>1, <1>3, <1>4
  <2>2. CASE \A m \in moved : m.id # e.id
    BY <2>2, <1>3
  <2> QED
    BY <2>1, <2>2
<1>6. trailing' \subseteq Trail
  BY <1>3, <1>4, TaskFacts
<1> QED
  BY <1>2, <1>3, <1>5, <1>6 DEF seen, price

LEMMA TrailStoreInd == Ind /\ TrailStore => Ind'
<1> SUFFICES ASSUME Ind, TrailStore PROVE Ind'
  OBVIOUS
<1> USE DEF Ind
<1> DEFINE seen == task["prints"].seen
           price == task["prints"].price
<1>1. UNCHANGED <<ord, rowLock, avail, kids, nextId, stops, index, sent, inbox, last, app, pair, api, hurt, overrun>>
  BY DEF TrailStore, pg
<1>2. task \in [Tasks -> TaskState] /\ task["prints"].pc = "trail" /\ task["prints"].cur = 0
  BY TaskFacts DEF TrailStore, Doing
<1> DEFINE q == [task["prints"] EXCEPT !.pc = "query", !.seen = {}]
<1>3. q \in TaskState /\ q.pc = "query" /\ q.cur = 0 /\ q.seen = {}
  <2>1. task["prints"] \in TaskState
    BY <1>2, TaskFacts
  <2> QED
    BY ONLY <1>2, <2>1 DEF TaskState, TaskStages
<1>4. task' = [task EXCEPT !["prints"] = q]
  BY <1>2, TaskFacts DEF TrailStore
<1> HIDE DEF q
<1>5. task' \in [Tasks -> TaskState] /\ task'["prints"] = q /\ task'["rescan"] = task["rescan"]
  BY <1>2, <1>3, <1>4, TaskFacts
<1>6. \A u \in Tasks : task'[u].cur = task[u].cur /\ (task[u].cur # 0 => task'[u] = task[u])
  BY <1>2, <1>3, <1>5, TaskFacts
<1>7. /\ price \in Nat
      /\ \A f \in trailing' : \/ f \in trailing /\ \A m \in seen : Trails(m, price) => m.id # f.id
                              \/ \E m \in seen : Trails(m, price) /\ f = Stored(m, price)
      /\ \A e \in trailing : \E f \in trailing' : f.id = e.id
      /\ trailing' \subseteq Trail
  BY TrailStoreFacts
<1>8. \A m \in seen : Stored(m, price).id = m.id
  <2>1. seen \subseteq Trail
    BY <1>2, TaskFacts DEF TaskState
  <2> QED
    BY <1>7, <2>1, StoredTrail
<1> HIDE DEF price
<1>9. Typed'
  BY <1>1, <1>5, <1>7 DEF Typed, TypedPg, TypedRedis, TypedActors
<1>10. Drawn'
  BY <1>1 DEF Drawn
<1>11. Held'
  <2>1. task["prints"].pc # "down" /\ task'["prints"].pc # "down"
    BY <1>2, <1>3, <1>5
  <2>2. app.up
    BY <2>1, TaskFacts
  <2>3. \A u \in Tasks : task'[u].cur # 0 <=> task'[u].pc \in Doing
    BY <1>3, <1>5, TaskFacts DEF Doing
  <2> QED
    BY <1>1, <1>6, <2>1, <2>2, <2>3 DEF Held
<1>12. (\A k \in Ids : ChildrenOf(k))'
  BY <1>1 DEF ChildrenOf
<1>13. SentOnce'
  BY <1>1 DEF SentOnce
<1>14. TrailsAgree'
  <2>1. /\ \A e, f \in trailing : e.id = f.id => e = f
        /\ \A e, f \in seen : e.id = f.id => e = f
        /\ \A e \in seen \cup trailing : e.id < nextId
        /\ \A c \in Clients : \A e \in seen \cup trailing : api[c].pc = "register" => e.id \notin api[c].todo
    BY DEF TrailsAgree
  <2> HIDE DEF seen
  <2>2. \A f \in trailing' : \E e \in seen \cup trailing : e.id = f.id
    BY <1>7, <1>8
  <2>3. \A f, g \in trailing' : f.id = g.id => f = g
    BY <1>7, <1>8, <2>1
  <2>4. task'["prints"].seen = {}
    BY <1>3, <1>5
  <2> QED
    BY <1>1, <2>1, <2>2, <2>3, <2>4 DEF TrailsAgree
<1>15. Registered'
  <2> DEFINE Later(k, o) == k \in index' /\ \E e \in (IF o.type = "trailing_stop" THEN trailing' ELSE stops') : e.id = k
  <2>1. \A k, o : InQueue(k, o) => Later(k, o)
    BY <1>1, <1>7 DEF InQueue
  <2> HIDE DEF Later
  <2>2. \A c \in Clients : \A k \in DOMAIN api[c].rows \ api[c].todo :
           LET o == api[c].rows[k] IN o.parent = 0 /\ IsStop(o) => Later(k, o)
    BY <2>1 DEF Registered
  <2>3. \A u \in Tasks : task[u].pc = "commit" => task'[u] = task[u]
    BY <1>6, TaskFacts DEF Doing
  <2>4. \A k \in Ids \ hurt : ord[k].status = "pending" /\ ord[k].parent = 0 =>
           \/ Later(k, ord[k])
           \/ \E u \in Tasks : task'[u].cur = k /\ task'[u].pc = "commit"
           \/ \E c \in Clients : k \in api[c].done
    BY <2>1, <2>3 DEF Registered
  <2> QED
    BY <1>1, <2>2, <2>4 DEF Registered, InQueue, Later
<1>16. LimitsRead'
  BY <1>1 DEF LimitsRead
<1>17. FundsExact'
  <2>1. Committed' = Committed /\ InFlight' = InFlight /\ PlacedBy' = PlacedBy
    BY <1>1, <1>6 DEF Committed, InFlight, PlacedBy, Placing
  <2> QED
    BY <1>1, <2>1, FundsKept
<1> QED
  BY <1>9, <1>10, <1>11, <1>12, <1>13, <1>14, <1>15, <1>16, <1>17

-----------------------------------------------------------------------------
(* Requests.                                                               *)

\* The next order of a request is one of its orders.
LEMMA MinIn ==
    ASSUME NEW S, S \subseteq Ids, S # {}
    PROVE  Min(S) \in S
<1>1. S \subseteq Nat
  BY StopMonitorAssumption DEF Ids
<1>2. IsWellFoundedOn(OpToRel(<, Nat), Nat)
  BY NatLessThanWellFounded
<1>3. PICK x \in S : \A y \in S : ~ (<<y, x>> \in OpToRel(<, Nat))
  BY <1>1, <1>2, WFMin
<1>4. \A y \in S : ~ (y < x)
  BY <1>1, <1>3 DEF OpToRel
<1>5. \A y \in S : x <= y
  BY <1>1, <1>4
<1> QED
  BY <1>5 DEF Min

LEMMA ApiFacts ==
    ASSUME Ind, NEW c \in Clients
    PROVE  /\ DOMAIN api = Clients /\ IsRequest(api[c]) /\ Staged(api[c])
           /\ (api[c].cur # 0 => api[c].cur \in Ids)
           /\ api[c].todo \subseteq Ids /\ api[c].done \subseteq Ids /\ DOMAIN api[c].rows \subseteq Ids
           /\ (api[c].pc # "register" => DOMAIN api[c].rows = {})
           /\ (api[c].pc # "cancel" => api[c].cur = 0 /\ api[c].done = {})
BY StopMonitorAssumption DEF Ind, Typed, TypedActors, Drawn, IsRequest, Staged, Ids

\* A cancel that has only read.
LEMMA RequestReads ==
    ASSUME Ind, NEW c \in Clients, NEW q, api' = [api EXCEPT ![c] = q], IsRequest(q),
           UNCHANGED <<ord, rowLock, avail, kids, nextId, stops, trailing, index, sent, inbox, last, app, pair, task, hurt, overrun>>,
           api[c].pc # "register", q.pc = "cancel", q.done = api[c].done, DOMAIN q.rows = {},
           q.cur # 0 => Active(ord[q.cur])
    PROVE  Ind'
<1> USE DEF Ind
<1>1. /\ DOMAIN api' = Clients /\ api'[c] = q /\ \A d \in Clients \ {c} : api'[d] = api[d]
      /\ DOMAIN api[c].rows = {}
  BY ApiFacts
<1>2. \A d \in Clients : DOMAIN api'[d].rows = DOMAIN api[d].rows /\ api'[d].done = api[d].done
  BY <1>1
<1>3. \A d \in Clients : DOMAIN api'[d].rows # {} => api'[d] = api[d]
  BY <1>1
<1>4. Typed'
  BY <1>1 DEF Typed, TypedPg, TypedRedis, TypedActors
<1>5. Drawn'
  <2>1. Staged(q)
    BY <1>1 DEF Staged
  <2>2. \A d \in Clients : Staged(api[d])
    BY DEF Drawn
  <2>3. \A d \in Clients : Staged(api'[d])
    BY <2>1, <2>2, <1>1
  <2> HIDE DEF Ind
  <2>4. Drawn
    BY DEF Ind
  <2> QED
    BY <1>2, <2>3, <2>4 DEF Drawn, Staged
<1>6. Held'
  <2>1. \A d \in Clients : api'[d].cur # 0 => ord[api'[d].cur].status # "none"
    BY <1>1 DEF Held, Active
  <2> QED
    BY <1>2, <2>1 DEF Held
<1>7. (\A k \in Ids : ChildrenOf(k))'
  BY DEF ChildrenOf
<1>8. SentOnce'
  BY <1>2, <1>3 DEF SentOnce
<1>9. TrailsAgree'
  BY <1>1 DEF TrailsAgree
<1>10. Registered'
  <2>1. \A d \in Clients : \A id \in DOMAIN api'[d].rows \ api'[d].todo : api'[d] = api[d]
    BY <1>3
  <2> QED
    BY <1>2, <2>1 DEF Registered, InQueue
<1>11. LimitsRead'
  <2>1. q.cur # 0 /\ ~IsStop(ord[q.cur]) => ord[q.cur].status = "new"
    <3>1. q.cur # 0 => q.cur \in Ids
      BY StopMonitorAssumption DEF IsRequest, Ids
    <3> QED
      BY <3>1 DEF Active, ChildrenOf
  <2> QED
    BY <1>1, <1>2, <2>1, StopMonitorAssumption DEF LimitsRead, Ids
<1>12. FundsExact'
  <2>1. \A d \in Clients : Placing(d)' = Placing(d)
    BY <1>1, <1>2 DEF Placing
  <2>2. Committed' = Committed /\ InFlight' = InFlight /\ PlacedBy' = PlacedBy
    BY <2>1 DEF Committed, InFlight, PlacedBy
  <2> QED
    BY <2>2, FundsKept
<1> QED
  BY <1>4, <1>5, <1>6, <1>7, <1>8, <1>9, <1>10, <1>11, <1>12

LEMMA NoRequestFacts ==
    /\ IsRequest(NoRequest) /\ Staged(NoRequest) /\ NoRequest.pc = "idle" /\ DOMAIN NoRequest.rows = {}
    /\ NoRequest.todo = {} /\ NoRequest.cur = 0 /\ NoRequest.done = {}
BY StopMonitorAssumption DEF NoRequest, IsRequest, Staged

LEMMA CancelBeginInd ==
    ASSUME Ind, NEW c \in Clients, NEW ids \in SUBSET Ids, CancelBegin(c, ids)
    PROVE  Ind'
<1> DEFINE q == [NoRequest EXCEPT !.pc = "cancel", !.todo = ids]
<1>1. /\ IsRequest(q) /\ q.pc = "cancel" /\ q.done = {} /\ DOMAIN q.rows = {} /\ q.cur = 0
  BY StopMonitorAssumption DEF NoRequest, IsRequest
<1>2. /\ api[c].pc = "idle" /\ api' = [api EXCEPT ![c] = q]
      /\ UNCHANGED <<ord, rowLock, avail, kids, nextId, stops, trailing, index, sent, inbox, last, app, pair, task, hurt, overrun>>
  BY DEF CancelBegin, pg, queues
<1> HIDE DEF q
<1> QED
  BY <1>1, <1>2, ApiFacts, RequestReads

LEMMA CancelReadInd ==
    ASSUME Ind, NEW c \in Clients, CancelRead(c)
    PROVE  Ind'
<1> DEFINE id == Min(api[c].todo)
           q == [api[c] EXCEPT !.todo = @ \ {id}, !.cur = IF Active(ord[id]) THEN id ELSE 0]
<1>1. id \in Ids /\ id \in 0 .. MaxOrders /\ 0 \in 0 .. MaxOrders
  <2>1. id \in api[c].todo
    BY ApiFacts, MinIn DEF CancelRead
  <2> QED
    BY <2>1, ApiFacts, StopMonitorAssumption DEF Ids
<1>2. /\ api[c].pc = "cancel" /\ api' = [api EXCEPT ![c] = q]
      /\ UNCHANGED <<ord, rowLock, avail, kids, nextId, stops, trailing, index, sent, inbox, last, app, pair, task, hurt, overrun>>
  BY ApiFacts DEF CancelRead, pg, queues
<1> HIDE DEF id
<1>3. /\ IsRequest(q) /\ q.pc = "cancel" /\ q.done = api[c].done /\ DOMAIN q.rows = {}
      /\ (q.cur # 0 => Active(ord[q.cur]))
  BY <1>1, <1>2, ApiFacts DEF IsRequest
<1> HIDE DEF q
<1> QED
  BY <1>2, <1>3, ApiFacts, RequestReads

LEMMA CancelUpdateInd ==
    ASSUME Ind, NEW c \in Clients, CancelUpdate(c)
    PROVE  Ind'
<1> USE DEF Ind
<1>0. PICK id : id = api[c].cur
  OBVIOUS
<1> DEFINE rows == {id} \cup {k \in Ids : ord[k].parent = id /\ Active(ord[k])}
           q == [api[c] EXCEPT !.done = @ \cup rows]
<1>1. /\ api[c].pc = "cancel" /\ id # 0 /\ \A k \in rows : rowLock[k] \in {NoOne, c}
      /\ rowLock' = [k \in Ids |-> IF k \in rows THEN c ELSE rowLock[k]]
      /\ api' = [api EXCEPT ![c].done = @ \cup rows]
      /\ overrun' = IF ord[id].status = "filled" THEN overrun \cup {id} ELSE overrun
      /\ UNCHANGED <<ord, avail, kids, nextId, stops, trailing, index, sent, inbox, last, app, pair, task, hurt>>
  BY <1>0 DEF CancelUpdate, pg, queues
<1>2. id \in Ids /\ rows \subseteq Ids /\ ord[id].status # "none"
  BY <1>0, <1>1, ApiFacts DEF Held
<1>4. \A k \in rows : k = id \/ (ord[k].parent = id /\ ord[k].status \in {"new", "pending"} /\ IsStop(ord[k]))
  BY <1>1, <1>2 DEF Active, ChildrenOf
<1> HIDE DEF rows
<1>5. /\ IsRequest(q) /\ q.pc = "cancel" /\ q.done = api[c].done \cup rows /\ DOMAIN q.rows = {}
      /\ q.rows = api[c].rows /\ q.cur = id /\ q.todo = api[c].todo
  BY <1>0, <1>1, <1>2, ApiFacts DEF IsRequest
<1>6. /\ DOMAIN api' = Clients /\ api'[c] = q /\ \A d \in Clients \ {c} : api'[d] = api[d]
      /\ DOMAIN api[c].rows = {}
  BY <1>1, ApiFacts
<1> HIDE DEF q
<1>7. \A d \in Clients : DOMAIN api'[d].rows = DOMAIN api[d].rows /\ api'[d].cur = api[d].cur /\ api'[d].rows = api[d].rows
                         /\ api'[d].todo = api[d].todo /\ api'[d].pc = api[d].pc /\ api[d].done \subseteq api'[d].done
  BY <1>0, <1>1, <1>5, <1>6
<1>8. overrun \subseteq overrun' /\ overrun' \subseteq Ids
  BY <1>1, <1>2 DEF Typed, TypedActors
<1>9. rowLock' \in [Ids -> {NoOne} \cup Clients \cup Tasks]
  BY <1>1 DEF Typed, TypedPg
<1>10. Typed'
  BY <1>1, <1>5, <1>6, <1>8, <1>9 DEF Typed, TypedPg, TypedRedis, TypedActors
<1>11. Drawn'
  <2>1. Staged(q)
    BY <1>5 DEF Staged
  <2>2. \A d \in Clients : Staged(api[d])
    BY DEF Drawn
  <2>3. \A d \in Clients : Staged(api'[d])
    BY <2>1, <2>2, <1>6
  <2>4. Drawn
    OBVIOUS
  <2> HIDE DEF Ind
  <2> QED
    BY <1>1, <1>7, <2>3, <2>4 DEF Drawn, Staged
<1>12. Held'
  <2>1. \A k \in Ids, d \in Clients : rowLock'[k] = d <=> k \in api'[d].done
    <3> SUFFICES ASSUME NEW k \in Ids, NEW d \in Clients PROVE rowLock'[k] = d <=> k \in api'[d].done
      OBVIOUS
    <3>1. rowLock[k] = d <=> k \in api[d].done
      BY DEF Held
    <3>2. CASE k \in rows
      BY <3>1, <3>2, <1>1, <1>5, <1>6, StopMonitorAssumption
    <3>3. CASE k \notin rows
      BY <3>1, <3>3, <1>1, <1>5, <1>6
    <3> QED
      BY <3>2, <3>3
  <2>2. \A k \in Ids, t \in Tasks : rowLock'[k] = t <=> task[t].cur = k
    <3> SUFFICES ASSUME NEW k \in Ids, NEW t \in Tasks PROVE rowLock'[k] = t <=> task[t].cur = k
      OBVIOUS
    <3>1. (rowLock[k] = t <=> task[t].cur = k) /\ c # t /\ NoOne # t
      BY StopMonitorAssumption DEF Held
    <3> QED
      BY <3>1, <1>1
  <2>3. \A d \in Clients : \A k \in api'[d].done : k \in api[d].done \/ (d = c /\ k \in rows)
    BY <1>5, <1>6
  <2>4. \A d \in Clients : \A k \in api'[d].done : ord[k].status # "none"
    BY <2>3, <1>2, <1>4 DEF Held
  <2>5. \A d \in Clients : \A k \in api'[d].done : ord[k].status = "filled" /\ IsStop(ord[k]) => k \in overrun'
    BY <2>3, <1>1, <1>4, <1>8 DEF Held
  <2> QED
    BY <1>1, <1>7, <2>1, <2>2, <2>4, <2>5 DEF Held
<1>13. (\A k \in Ids : ChildrenOf(k))'
  BY <1>1, <1>8 DEF ChildrenOf
<1>14. SentOnce'
  BY <1>1, <1>7 DEF SentOnce
<1>15. TrailsAgree'
  BY <1>1, <1>7 DEF TrailsAgree
<1>16. Registered'
  BY <1>1, <1>7 DEF Registered, InQueue
<1>17. LimitsRead'
  <2> SUFFICES ASSUME NEW d \in Clients, NEW k \in Ids, api'[d].cur = k \/ k \in api'[d].done, ~IsStop(ord[k])
               PROVE  ord[k].status \in {"new", "canceled"}
    BY <1>1 DEF LimitsRead
  <2>1. api[d].cur = k \/ k \in api[d].done \/ (d = c /\ k = id)
    BY <1>4, <1>5, <1>6
  <2> QED
    BY <1>0, <2>1 DEF LimitsRead
<1>18. FundsExact'
  <2>1. \A d \in Clients : Placing(d)' = Placing(d)
    BY <1>7 DEF Placing
  <2>2. Committed' = Committed /\ InFlight' = InFlight /\ PlacedBy' = PlacedBy
    BY <1>1, <2>1 DEF Committed, InFlight, PlacedBy
  <2> QED
    BY <1>1, <2>2, FundsKept
<1> QED
  BY <1>10, <1>11, <1>12, <1>13, <1>14, <1>15, <1>16, <1>17, <1>18

LEMMA CancelRedisInd ==
    ASSUME Ind, NEW c \in Clients, CancelRedis(c)
    PROVE  Ind'
<1> USE DEF Ind
<1>0. PICK id : id = api[c].cur
  OBVIOUS
<1> DEFINE q == [api[c] EXCEPT !.cur = 0]
<1>1. /\ api[c].pc = "cancel" /\ id # 0 /\ id \in api[c].done
      /\ index' = index \ {id} /\ api' = [api EXCEPT ![c].cur = 0]
      /\ stops' \subseteq stops /\ trailing' \subseteq trailing
      /\ \A e \in stops : e.id # id => e \in stops'
      /\ \A e \in trailing : e.id # id => e \in trailing'
      /\ UNCHANGED <<ord, rowLock, avail, kids, nextId, sent, inbox, last, app, pair, task, hurt, overrun>>
  BY <1>0 DEF CancelRedis, unregister, pg
<1>2. /\ IsRequest(q) /\ q.pc = "cancel" /\ q.done = api[c].done /\ DOMAIN q.rows = {}
      /\ q.rows = api[c].rows /\ q.cur = 0 /\ q.todo = api[c].todo
  BY <1>1, ApiFacts, StopMonitorAssumption DEF IsRequest
<1>3. /\ DOMAIN api' = Clients /\ api'[c] = q /\ \A d \in Clients \ {c} : api'[d] = api[d]
  BY <1>1, ApiFacts
<1> HIDE DEF q
<1>4. \A d \in Clients : DOMAIN api'[d].rows = DOMAIN api[d].rows /\ api'[d].cur \in {0, api[d].cur} /\ api'[d].rows = api[d].rows
                         /\ api'[d].todo = api[d].todo /\ api'[d].pc = api[d].pc /\ api[d].done = api'[d].done
  BY <1>1, <1>2, <1>3
<1>5. Typed'
  BY <1>1, <1>2, <1>3 DEF Typed, TypedPg, TypedRedis, TypedActors
<1>6. Drawn'
  <2>1. Staged(q)
    BY <1>2 DEF Staged
  <2>2. \A d \in Clients : Staged(api[d])
    BY DEF Drawn
  <2>3. \A d \in Clients : Staged(api'[d])
    BY <2>1, <2>2, <1>3
  <2>4. Drawn
    OBVIOUS
  <2> HIDE DEF Ind
  <2> QED
    BY <1>1, <1>4, <2>3, <2>4 DEF Drawn, Staged
<1>7. Held'
  <2>1. \A d \in Clients : api'[d].cur # 0 => ord[api'[d].cur].status # "none"
    BY <1>4 DEF Held
  <2> QED
    BY <1>1, <1>4, <2>1 DEF Held
<1>8. (\A k \in Ids : ChildrenOf(k))'
  BY <1>1 DEF ChildrenOf
<1>9. SentOnce'
  BY <1>1, <1>4 DEF SentOnce
<1>10. TrailsAgree'
  BY <1>1, <1>4 DEF TrailsAgree
<1>11. Registered'
  <2> DEFINE Later(k, o) == k \in index' /\ \E e \in (IF o.type = "trailing_stop" THEN trailing' ELSE stops') : e.id = k
  <2>1. \A k, o : k # id /\ InQueue(k, o) => Later(k, o)
    BY <1>1 DEF InQueue
  <2>2. \A d \in Clients : id \notin DOMAIN api[d].rows
    <3>1. ord[id].status # "none"
      BY <1>1 DEF Held
    <3> QED
      BY <3>1 DEF Drawn
  <2> HIDE DEF Later
  <2>3. \A d \in Clients : \A k \in DOMAIN api[d].rows \ api[d].todo :
           LET o == api[d].rows[k] IN o.parent = 0 /\ IsStop(o) => Later(k, o)
    BY <2>1, <2>2 DEF Registered
  <2>4. \A k \in Ids \ hurt : ord[k].status = "pending" /\ ord[k].parent = 0 =>
           \/ Later(k, ord[k])
           \/ \E u \in Tasks : task[u].cur = k /\ task[u].pc = "commit"
           \/ \E d \in Clients : k \in api[d].done
    BY <1>1, <2>1 DEF Registered
  <2> QED
    BY <1>1, <1>4, <2>3, <2>4 DEF Registered, InQueue, Later
<1>12. LimitsRead'
  BY <1>1, <1>4, StopMonitorAssumption DEF LimitsRead, Ids
<1>13. FundsExact'
  <2>1. \A d \in Clients : Placing(d)' = Placing(d)
    BY <1>4 DEF Placing
  <2>2. Committed' = Committed /\ InFlight' = InFlight /\ PlacedBy' = PlacedBy
    BY <1>1, <2>1 DEF Committed, InFlight, PlacedBy
  <2> QED
    BY <1>1, <2>2, FundsKept
<1> QED
  BY <1>5, <1>6, <1>7, <1>8, <1>9, <1>10, <1>11, <1>12, <1>13

\* A request that ends leaves the others alone.
LEMMA RequestEnds ==
    ASSUME Ind, NEW c \in Clients, api' = [api EXCEPT ![c] = NoRequest]
    PROVE  /\ DOMAIN api' = Clients /\ api'[c] = NoRequest /\ \A d \in Clients \ {c} : api'[d] = api[d]
           /\ \A d \in Clients : IsRequest(api'[d]) /\ Staged(api'[d])
           /\ \A d \in Clients : DOMAIN api'[d].rows # {} => d # c /\ api'[d] = api[d]
           /\ \A d \in Clients : api'[d].cur # 0 => d # c /\ api'[d] = api[d]
           /\ \A d \in Clients : api'[d].done # {} => d # c /\ api'[d] = api[d]
           /\ \A d \in Clients : api'[d].pc = "register" => d # c /\ api'[d] = api[d]
           /\ \A d, e \in Clients : d # e => DOMAIN api'[d].rows \cap DOMAIN api'[e].rows = {}
           /\ PlacedBy' = PlacedBy \ Placing(c) /\ Placing(c) \subseteq PlacedBy
<1>1. DOMAIN api' = Clients /\ api'[c] = NoRequest /\ \A d \in Clients \ {c} : api'[d] = api[d]
  BY ApiFacts
<1>2. \A d \in Clients : IsRequest(api'[d]) /\ Staged(api'[d])
  BY <1>1, ApiFacts, NoRequestFacts
<1>3. /\ \A d \in Clients : DOMAIN api'[d].rows # {} => d # c /\ api'[d] = api[d]
      /\ \A d \in Clients : api'[d].cur # 0 => d # c /\ api'[d] = api[d]
      /\ \A d \in Clients : api'[d].done # {} => d # c /\ api'[d] = api[d]
      /\ \A d \in Clients : api'[d].pc = "register" => d # c /\ api'[d] = api[d]
  BY <1>1, NoRequestFacts
<1>4. \A d, e \in Clients : d # e => DOMAIN api[d].rows \cap DOMAIN api[e].rows = {}
  BY DEF Ind, Drawn
<1>5. \A d, e \in Clients : d # e => DOMAIN api'[d].rows \cap DOMAIN api'[e].rows = {}
  BY <1>3, <1>4
<1>6. \A d \in Clients : Placing(d) \subseteq DOMAIN api[d].rows
  BY DEF Placing
<1>7. \A d \in Clients : Placing(d)' = IF d = c THEN {} ELSE Placing(d)
  BY <1>1, NoRequestFacts DEF Placing
<1>8. \A d \in Clients \ {c} : Placing(d) \cap Placing(c) = {}
  BY <1>4, <1>6
<1>9. PlacedBy' = PlacedBy \ Placing(c) /\ Placing(c) \subseteq PlacedBy
  <2>1. \A x : x \in PlacedBy' <=> \E d \in Clients : x \in Placing(d)'
    BY DEF PlacedBy
  <2>2. \A x : x \in PlacedBy <=> \E d \in Clients : x \in Placing(d)
    BY DEF PlacedBy
  <2>3. \A x : x \in PlacedBy' <=> x \in PlacedBy \ Placing(c)
    BY <2>1, <2>2, <1>7, <1>8
  <2> QED
    BY <2>2, <2>3
<1> QED
  BY <1>1, <1>2, <1>3, <1>5, <1>9

\* A cancel that ends lets its rows go.
LEMMA CancelLetsGo ==
    ASSUME Ind, NEW c \in Clients, api' = [api EXCEPT ![c] = NoRequest], rowLock' = Unlock(c)
    PROVE  /\ rowLock' \in [Ids -> {NoOne} \cup Clients \cup Tasks]
           /\ \A k \in Ids, d \in Clients : rowLock'[k] = d <=> k \in api'[d].done
           /\ \A k \in Ids, t \in Tasks : rowLock'[k] = t <=> task[t].cur = k
           /\ \A t \in Tasks : task[t].cur # 0 => task[t].cur \in Ids /\ task[t].cur \notin api[c].done
           /\ \A d \in Clients \ {c} : api[d].done \cap api[c].done = {}
<1> USE DEF Ind
<1>1. /\ \A k \in Ids, d \in Clients : rowLock[k] = d <=> k \in api[d].done
      /\ \A k \in Ids, t \in Tasks : rowLock[k] = t <=> task[t].cur = k
      /\ rowLock \in [Ids -> {NoOne} \cup Clients \cup Tasks]
  BY DEF Held, Typed, TypedPg
<1>2. NoOne \notin Clients /\ NoOne \notin Tasks /\ c \notin Tasks
  BY StopMonitorAssumption
<1>3. /\ rowLock' \in [Ids -> {NoOne} \cup Clients \cup Tasks]
      /\ \A k \in Ids : rowLock'[k] = IF rowLock[k] = c THEN NoOne ELSE rowLock[k]
  BY <1>1 DEF Unlock
<1>4. api'[c].done = {} /\ \A d \in Clients \ {c} : api'[d] = api[d]
  BY RequestEnds, NoRequestFacts
<1>5. \A k \in Ids, d \in Clients : rowLock'[k] = d <=> k \in api'[d].done
  BY <1>1, <1>2, <1>3, <1>4
<1>6. \A k \in Ids, t \in Tasks : rowLock'[k] = t <=> task[t].cur = k
  BY <1>1, <1>2, <1>3
<1>7. \A t \in Tasks : task[t].cur # 0 => task[t].cur \in Ids
  BY TaskFacts, StopMonitorAssumption DEF TaskState, Ids
<1>8. \A t \in Tasks : task[t].cur # 0 => task[t].cur \notin api[c].done
  BY <1>1, <1>2, <1>7
<1>9. \A d \in Clients \ {c} : api[d].done \cap api[c].done = {}
  BY <1>1, ApiFacts
<1> QED
  BY <1>3, <1>5, <1>6, <1>7, <1>8, <1>9

LEMMA CancelFailsInd ==
    ASSUME Ind, NEW c \in Clients, CancelFails(c)
    PROVE  Ind'
<1> USE DEF Ind
<1>1. /\ hurt' = hurt \cup api[c].done \cup ({api[c].cur} \ {0}) /\ rowLock' = Unlock(c)
      /\ api' = [api EXCEPT ![c] = NoRequest] /\ api[c].pc = "cancel"
      /\ UNCHANGED <<ord, avail, kids, nextId, stops, trailing, index, sent, inbox, last, app, pair, task, overrun>>
  BY DEF CancelFails, pg, queues
<1>2. /\ DOMAIN api' = Clients /\ api'[c] = NoRequest /\ \A d \in Clients \ {c} : api'[d] = api[d]
      /\ \A d \in Clients : IsRequest(api'[d]) /\ Staged(api'[d])
      /\ \A d \in Clients : DOMAIN api'[d].rows # {} => d # c /\ api'[d] = api[d]
      /\ \A d \in Clients : api'[d].cur # 0 => d # c /\ api'[d] = api[d]
      /\ \A d \in Clients : api'[d].done # {} => d # c /\ api'[d] = api[d]
      /\ \A d \in Clients : api'[d].pc = "register" => d # c /\ api'[d] = api[d]
      /\ \A d, e \in Clients : d # e => DOMAIN api'[d].rows \cap DOMAIN api'[e].rows = {}
      /\ PlacedBy' = PlacedBy \ Placing(c)
  BY <1>1, RequestEnds
<1>3. /\ rowLock' \in [Ids -> {NoOne} \cup Clients \cup Tasks]
      /\ \A k \in Ids, d \in Clients : rowLock'[k] = d <=> k \in api'[d].done
      /\ \A k \in Ids, t \in Tasks : rowLock'[k] = t <=> task[t].cur = k
  BY <1>1, CancelLetsGo
<1>4. hurt \subseteq hurt' /\ api[c].done \subseteq hurt' /\ hurt' \subseteq Ids
  BY <1>1, ApiFacts DEF Typed, TypedActors
<1>5. Typed'
  BY <1>1, <1>2, <1>3, <1>4 DEF Typed, TypedPg, TypedRedis, TypedActors
<1>6. Drawn'
  BY <1>1, <1>2 DEF Drawn
<1>7. Held'
  BY <1>1, <1>2, <1>3 DEF Held
<1>8. (\A k \in Ids : ChildrenOf(k))'
  BY <1>1 DEF ChildrenOf
<1>9. SentOnce'
  BY <1>1, <1>2 DEF SentOnce
<1>10. TrailsAgree'
  BY <1>1, <1>2 DEF TrailsAgree
<1>11. Registered'
  BY <1>1, <1>2, <1>4 DEF Registered, InQueue
<1>12. LimitsRead'
  BY <1>1, <1>2, StopMonitorAssumption DEF LimitsRead, Ids
<1>13. FundsExact'
  <2>1. Placing(c) = {}
    BY <1>1, ApiFacts DEF Placing
  <2>2. Committed' = Committed /\ InFlight' = InFlight
    BY <1>1 DEF Committed, InFlight
  <2> QED
    BY <1>1, <1>2, <2>1, <2>2, FundsKept
<1> QED
  BY <1>5, <1>6, <1>7, <1>8, <1>9, <1>10, <1>11, <1>12, <1>13

LEMMA CancelCommitInd ==
    ASSUME Ind, NEW c \in Clients, CancelCommit(c)
    PROVE  Ind'
<1> USE DEF Ind
<1> DEFINE done == api[c].done
           free == {id \in done : ord[id].status = "new" /\ ~IsStop(ord[id])}
<1>1. /\ ord' = [id \in Ids |-> IF id \in done THEN [ord[id] EXCEPT !.status = "canceled"] ELSE ord[id]]
      /\ avail' = avail + Cardinality(free) /\ rowLock' = Unlock(c)
      /\ api' = [api EXCEPT ![c] = NoRequest] /\ api[c].pc = "cancel"
      /\ UNCHANGED <<kids, nextId, stops, trailing, index, sent, inbox, last, app, pair, task, hurt, overrun>>
  BY DEF CancelCommit, queues, market
<1>2. /\ DOMAIN api' = Clients /\ api'[c] = NoRequest /\ \A d \in Clients \ {c} : api'[d] = api[d]
      /\ \A d \in Clients : IsRequest(api'[d]) /\ Staged(api'[d])
      /\ \A d \in Clients : DOMAIN api'[d].rows # {} => d # c /\ api'[d] = api[d]
      /\ \A d \in Clients : api'[d].cur # 0 => d # c /\ api'[d] = api[d]
      /\ \A d \in Clients : api'[d].done # {} => d # c /\ api'[d] = api[d]
      /\ \A d \in Clients : api'[d].pc = "register" => d # c /\ api'[d] = api[d]
      /\ \A d, e \in Clients : d # e => DOMAIN api'[d].rows \cap DOMAIN api'[e].rows = {}
      /\ PlacedBy' = PlacedBy \ Placing(c)
  BY <1>1, RequestEnds
<1>3. /\ rowLock' \in [Ids -> {NoOne} \cup Clients \cup Tasks]
      /\ \A k \in Ids, d \in Clients : rowLock'[k] = d <=> k \in api'[d].done
      /\ \A k \in Ids, t \in Tasks : rowLock'[k] = t <=> task[t].cur = k
      /\ \A t \in Tasks : task[t].cur # 0 => task[t].cur \in Ids /\ task[t].cur \notin done
      /\ \A d \in Clients \ {c} : api[d].done \cap done = {}
  BY <1>1, CancelLetsGo
<1>4. done \subseteq Ids /\ \A k \in done : ord[k].status # "none"
  BY ApiFacts DEF Held
<1>5. \A k \in Ids : ord[k] \in OrderRow
  BY DEF Typed, TypedPg
<1>6. /\ \A k \in Ids \ done : ord'[k] = ord[k]
      /\ \A k \in done : /\ ord'[k] \in OrderRow /\ ord'[k].status = "canceled"
                         /\ ord'[k].type = ord[k].type /\ ord'[k].parent = ord[k].parent
  <2>1. \A o \in OrderRow : LET p == [o EXCEPT !.status = "canceled"]
                            IN  p \in OrderRow /\ p.status = "canceled" /\ p.type = o.type /\ p.parent = o.parent
    BY DEF OrderRow, Statuses
  <2> QED
    BY <1>1, <1>4, <1>5, <2>1
<1>7. ord' \in [Ids -> OrderRow]
  <2>1. DOMAIN ord' = Ids /\ ord' = [k \in Ids |-> ord'[k]]
    BY <1>1
  <2> QED
    BY <2>1, <1>5, <1>6
<1>8. \A k \in Ids : IsStop(ord'[k]) <=> IsStop(ord[k])
  BY <1>6 DEF IsStop
<1>0. UNCHANGED <<kids, nextId, stops, trailing, index, sent, inbox, last, app, pair, task, hurt, overrun>>
  BY <1>1
<1>18. Cardinality(free) \in Nat /\ IsFiniteSet(free)
  BY <1>4, Finite
<1> HIDE DEF done, free
<1>9. Typed'
  <2>1. avail' \in Nat
    BY <1>1, <1>18 DEF Typed, TypedPg
  <2> QED
    BY <1>0, <1>2, <1>3, <1>7, <2>1 DEF Typed, TypedPg, TypedRedis, TypedActors
<1>10. Drawn'
  <2>1. \A d \in Clients : \A k \in DOMAIN api'[d].rows : k < nextId /\ ord'[k].status = "none"
    <3>1. \A d \in Clients : \A k \in DOMAIN api[d].rows : k \in Ids /\ k < nextId /\ ord[k].status = "none"
      BY DEF Drawn, Typed, TypedActors, IsRequest
    <3>2. \A k \in Ids : ord[k].status = "none" => ord'[k] = ord[k]
      BY <1>4, <1>6
    <3> QED
      BY <3>1, <3>2, <1>2
  <2>2. \A k \in Ids : k >= nextId => ord'[k].status = "none"
    BY <1>4, <1>6 DEF Drawn
  <2> QED
    BY <1>1, <1>2, <2>1, <2>2 DEF Drawn
<1>11. Held'
  <2>1. \A t \in Tasks : task[t].cur # 0 => ord'[task[t].cur].status = "pending"
    BY <1>3, <1>6 DEF Held
  <2>2. \A d \in Clients : api'[d].cur # 0 => ord'[api'[d].cur].status # "none"
    <3> SUFFICES ASSUME NEW d \in Clients, api'[d].cur # 0 PROVE ord'[api'[d].cur].status # "none"
      OBVIOUS
    <3>1. api'[d] = api[d] /\ api[d].cur \in Ids /\ ord[api[d].cur].status # "none"
      BY <1>2, ApiFacts DEF Held
    <3> QED
      BY <3>1, <1>6
  <2>3. \A d \in Clients : \A k \in api'[d].done : k \in api[d].done /\ ord'[k] = ord[k]
    <3> SUFFICES ASSUME NEW d \in Clients, NEW k \in api'[d].done PROVE k \in api[d].done /\ ord'[k] = ord[k]
      OBVIOUS
    <3>1. d # c /\ api'[d] = api[d]
      BY <1>2
    <3>2. k \in Ids /\ k \notin done
      BY <3>1, <1>3, ApiFacts
    <3> QED
      BY <3>1, <3>2, <1>6
  <2>4. \A d \in Clients : \A k \in api'[d].done :
           ord'[k].status # "none" /\ (ord'[k].status = "filled" /\ IsStop(ord'[k]) => k \in overrun)
    BY <2>3 DEF Held
  <2> QED
    BY <1>0, <1>3, <2>1, <2>2, <2>4 DEF Held
<1>12. (\A k \in Ids : ChildrenOf(k))'
  <2> SUFFICES ASSUME NEW k \in Ids PROVE ChildrenOf(k)'
    OBVIOUS
  <2>0. ChildrenOf(k)
    OBVIOUS
  <2>1. CASE k \notin done
    BY <2>0, <2>1, <1>1, <1>6 DEF ChildrenOf
  <2>2. CASE k \in done
    <3>1. ord[k].status \in Statuses /\ ord[k].status # "none" /\ kids[k] \in Nat
      BY <2>2, <1>4, <1>5 DEF OrderRow, Typed, TypedPg
    <3>2. kids[k] = 1 => k \in overrun
      BY <2>0, <2>2, <3>1 DEF ChildrenOf, Held, Statuses, done
    <3> QED
      BY <2>0, <2>2, <3>1, <3>2, <1>1, <1>6, <1>8 DEF ChildrenOf
  <2> QED
    BY <2>1, <2>2
<1>13. SentOnce'
  <2>1. \A k \in Ids : ord'[k].parent = ord[k].parent /\ (ord'[k].status = "pending" => ord[k].status = "pending")
    BY <1>6
  <2> QED
    BY <1>1, <1>2, <2>1 DEF SentOnce
<1>14. TrailsAgree'
  BY <1>1, <1>2 DEF TrailsAgree
<1>15. Registered'
  <2>1. \A k \in Ids : ord'[k].status = "pending" => k \notin done /\ ord'[k] = ord[k]
    BY <1>6
  <2>2. \A k \in Ids \ done, d \in Clients : k \in api[d].done => k \in api'[d].done
    BY <1>2 DEF done
  <2> QED
    BY <1>1, <1>2, <2>1, <2>2 DEF Registered, InQueue
<1>16. LimitsRead'
  <2> SUFFICES ASSUME NEW d \in Clients, NEW k \in Ids, api'[d].cur = k \/ k \in api'[d].done, ~IsStop(ord'[k])
               PROVE  ord'[k].status \in {"new", "canceled"}
    BY DEF LimitsRead
  <2>1. k # 0
    BY StopMonitorAssumption DEF Ids
  <2>2. api'[d] = api[d]
    BY <1>2, <2>1
  <2>3. ord[k].status \in {"new", "canceled"}
    BY <2>2, <1>8 DEF LimitsRead
  <2> QED
    BY <2>3, <1>6
<1>17. FundsExact'
  <2>1. Placing(c) = {} /\ InFlight' = InFlight
    BY <1>1, ApiFacts DEF Placing, InFlight
  <2>2. free \subseteq Committed
    BY <1>4 DEF Committed, free
  <2>3. Committed' = Committed \ free
    <3>1. \A k \in done : ~IsStop(ord[k]) => ord[k].status \in {"new", "canceled"}
      BY <1>4 DEF LimitsRead, done
    <3>2. \A k \in Ids : k \in Committed' <=> k \in Committed \ free
      BY <1>4, <1>6, <1>8, <3>1 DEF Committed, free
    <3> QED
      BY <3>2 DEF Committed
  <2>4. IsFiniteSet(free) /\ Cardinality(free) \in Nat /\ Committed \cap free = free
    BY <2>2, Numbers, FS_Subset, FS_CardinalityType
  <2>5. Cardinality(Committed') = Cardinality(Committed) - Cardinality(free)
    <3>1. IsFiniteSet(Committed)
      BY Numbers
    <3>2. Cardinality(Committed \ free) = Cardinality(Committed) - Cardinality(Committed \cap free)
      BY <3>1, FS_Difference
    <3> QED
      BY <2>3, <2>4, <3>2
  <2>6. PlacedBy' = PlacedBy
    BY <2>1, <1>2
  <2> QED
    BY <1>1, <2>1, <2>4, <2>5, <2>6, FundsForm, Numbers
<1> QED
  BY <1>9, <1>10, <1>11, <1>12, <1>13, <1>14, <1>15, <1>16, <1>17

LEMMA PlaceFailsInd ==
    ASSUME Ind, NEW c \in Clients, PlaceFails(c)
    PROVE  Ind'
<1> USE DEF Ind
<1>1. /\ avail' = avail + Cardinality(Placing(c)) /\ hurt' = hurt \cup DOMAIN api[c].rows
      /\ api' = [api EXCEPT ![c] = NoRequest] /\ api[c].pc = "register"
      /\ UNCHANGED <<ord, rowLock, kids, nextId, stops, trailing, index, sent, inbox, last, app, pair, task, overrun>>
  BY DEF PlaceFails, queues, market
<1>2. /\ DOMAIN api' = Clients /\ api'[c] = NoRequest /\ \A d \in Clients \ {c} : api'[d] = api[d]
      /\ \A d \in Clients : IsRequest(api'[d]) /\ Staged(api'[d])
      /\ \A d \in Clients : DOMAIN api'[d].rows # {} => d # c /\ api'[d] = api[d]
      /\ \A d \in Clients : api'[d].cur # 0 => d # c /\ api'[d] = api[d]
      /\ \A d \in Clients : api'[d].done # {} => d # c /\ api'[d] = api[d]
      /\ \A d \in Clients : api'[d].pc = "register" => d # c /\ api'[d] = api[d]
      /\ \A d, e \in Clients : d # e => DOMAIN api'[d].rows \cap DOMAIN api'[e].rows = {}
      /\ PlacedBy' = PlacedBy \ Placing(c) /\ Placing(c) \subseteq PlacedBy
  BY <1>1, RequestEnds
<1>3. \A d \in Clients : api'[d].done = api[d].done
  BY <1>1, <1>2, ApiFacts, NoRequestFacts
<1>4. hurt \subseteq hurt' /\ hurt' \subseteq Ids
  BY <1>1, ApiFacts DEF Typed, TypedActors
<1>5. /\ IsFiniteSet(Placing(c)) /\ Cardinality(Placing(c)) \in Nat
      /\ Cardinality(PlacedBy') = Cardinality(PlacedBy) - Cardinality(Placing(c))
  <2>1. IsFiniteSet(PlacedBy)
    BY Numbers
  <2>2. IsFiniteSet(Placing(c)) /\ Cardinality(Placing(c)) \in Nat /\ PlacedBy \cap Placing(c) = Placing(c)
    BY <1>2, <2>1, FS_Subset, FS_CardinalityType
  <2>3. Cardinality(PlacedBy \ Placing(c)) = Cardinality(PlacedBy) - Cardinality(PlacedBy \cap Placing(c))
    BY <2>1, FS_Difference
  <2> QED
    BY <1>2, <2>2, <2>3
<1>6. Typed'
  <2>1. avail' \in Nat
    BY <1>1, <1>5 DEF Typed, TypedPg
  <2> QED
    BY <1>1, <1>2, <1>4, <2>1 DEF Typed, TypedPg, TypedRedis, TypedActors
<1>7. Drawn'
  BY <1>1, <1>2 DEF Drawn
<1>8. Held'
  BY <1>1, <1>2, <1>3 DEF Held
<1>9. (\A k \in Ids : ChildrenOf(k))'
  BY <1>1 DEF ChildrenOf
<1>10. SentOnce'
  BY <1>1, <1>2 DEF SentOnce
<1>11. TrailsAgree'
  BY <1>1, <1>2 DEF TrailsAgree
<1>12. Registered'
  BY <1>1, <1>2, <1>3, <1>4 DEF Registered, InQueue
<1>13. LimitsRead'
  BY <1>1, <1>2, StopMonitorAssumption DEF LimitsRead, Ids
<1>14. FundsExact'
  <2>1. Committed' = Committed /\ InFlight' = InFlight
    BY <1>1 DEF Committed, InFlight
  <2> QED
    BY <1>1, <1>5, <2>1, FundsForm, Numbers
<1> QED
  BY <1>6, <1>7, <1>8, <1>9, <1>10, <1>11, <1>12, <1>13, <1>14

LEMMA PlaceCommitInd ==
    ASSUME Ind, NEW c \in Clients, PlaceCommit(c)
    PROVE  Ind'
<1> USE DEF Ind
<1>0. PICK rows : rows = api[c].rows
  OBVIOUS
<1>1. /\ ord' = [id \in Ids |-> IF id \in DOMAIN rows THEN rows[id] ELSE ord[id]]
      /\ api' = [api EXCEPT ![c] = NoRequest] /\ api[c].pc = "register" /\ api[c].todo = {}
      /\ UNCHANGED <<avail, rowLock, kids, nextId, stops, trailing, index, sent, inbox, last, app, pair, task, hurt, overrun>>
  BY <1>0 DEF PlaceCommit, queues, market
<1>2. /\ DOMAIN api' = Clients /\ api'[c] = NoRequest /\ \A d \in Clients \ {c} : api'[d] = api[d]
      /\ \A d \in Clients : IsRequest(api'[d]) /\ Staged(api'[d])
      /\ \A d \in Clients : DOMAIN api'[d].rows # {} => d # c /\ api'[d] = api[d]
      /\ \A d \in Clients : api'[d].cur # 0 => d # c /\ api'[d] = api[d]
      /\ \A d \in Clients : api'[d].done # {} => d # c /\ api'[d] = api[d]
      /\ \A d \in Clients : api'[d].pc = "register" => d # c /\ api'[d] = api[d]
      /\ \A d, e \in Clients : d # e => DOMAIN api'[d].rows \cap DOMAIN api'[e].rows = {}
      /\ PlacedBy' = PlacedBy \ Placing(c) /\ Placing(c) \subseteq PlacedBy
  BY <1>1, RequestEnds
<1>3. \A d \in Clients : api'[d].done = api[d].done
  BY <1>1, <1>2, ApiFacts, NoRequestFacts
<1>4. /\ DOMAIN rows \subseteq Ids
      /\ \A k \in DOMAIN rows : rows[k] \in OrderRow /\ FreshRow(rows[k]) /\ k < nextId /\ ord[k].status = "none"
  <2>1. IsRequest(api[c]) /\ Staged(api[c])
    BY ApiFacts
  <2> QED
    BY <1>0, <2>1 DEF Drawn, IsRequest, Staged
<1>5. /\ \A k \in DOMAIN rows : ord'[k] = rows[k]
      /\ \A k \in Ids \ DOMAIN rows : ord'[k] = ord[k]
      /\ \A k \in Ids : ord[k].status # "none" => ord'[k] = ord[k]
  BY <1>1, <1>4
<1>6. ord' \in [Ids -> OrderRow]
  <2>1. \A k \in Ids : ord[k] \in OrderRow
    BY DEF Typed, TypedPg
  <2>2. ord' = [k \in Ids |-> ord'[k]]
    BY <1>1
  <2> QED
    BY <2>1, <2>2, <1>4, <1>5
<1>7. UNCHANGED <<avail, rowLock, kids, nextId, stops, trailing, index, sent, inbox, last, app, pair, task, hurt, overrun>>
  BY <1>1
<1>8. Typed'
  BY <1>7, <1>2, <1>6 DEF Typed, TypedPg, TypedRedis, TypedActors
<1>9. Drawn'
  <2>1. \A d \in Clients : \A k \in DOMAIN api'[d].rows : k < nextId /\ ord'[k].status = "none"
    <3> SUFFICES ASSUME NEW d \in Clients, NEW k \in DOMAIN api'[d].rows PROVE k < nextId /\ ord'[k].status = "none"
      OBVIOUS
    <3>1. d # c /\ api'[d] = api[d]
      BY <1>2
    <3>2. k \in Ids /\ k < nextId /\ ord[k].status = "none" /\ k \notin DOMAIN rows
      BY <3>1, <1>0, ApiFacts DEF Drawn
    <3> QED
      BY <3>2, <1>5
  <2>2. \A k \in Ids : k >= nextId => ord'[k].status = "none"
    <3> SUFFICES ASSUME NEW k \in Ids, k >= nextId PROVE ord'[k].status = "none"
      OBVIOUS
    <3>1. k \notin DOMAIN rows /\ ord[k].status = "none"
      BY <1>4, StopMonitorAssumption DEF Drawn, Ids, Typed, TypedPg
    <3> QED
      BY <3>1, <1>5
  <2> QED
    BY <1>7, <1>2, <2>1, <2>2 DEF Drawn
<1>10. Held'
  <2>1. \A t \in Tasks : task[t].cur # 0 => ord'[task[t].cur].status = "pending"
    <3>1. \A t \in Tasks : task[t].cur # 0 => task[t].cur \in Ids
      BY TaskFacts, StopMonitorAssumption DEF TaskState, Ids
    <3> QED
      BY <3>1, <1>5 DEF Held
  <2>2. \A d \in Clients : api'[d].cur # 0 => ord'[api'[d].cur].status # "none"
    BY <1>2, <1>5, ApiFacts DEF Held
  <2>3. \A d \in Clients : \A k \in api[d].done : ord'[k] = ord[k]
    BY <1>5, ApiFacts DEF Held
  <2>4. \A d \in Clients : \A k \in api'[d].done :
           ord'[k].status # "none" /\ (ord'[k].status = "filled" /\ IsStop(ord'[k]) => k \in overrun)
    BY <1>3, <2>3 DEF Held
  <2> QED
    BY <1>7, <1>3, <2>1, <2>2, <2>4 DEF Held
<1>11. (\A k \in Ids : ChildrenOf(k))'
  <2> SUFFICES ASSUME NEW k \in Ids PROVE ChildrenOf(k)'
    OBVIOUS
  <2>0. ChildrenOf(k)
    OBVIOUS
  <2>1. CASE k \notin DOMAIN rows
    BY <2>0, <2>1, <1>5, <1>7 DEF ChildrenOf
  <2>2. CASE k \in DOMAIN rows
    <3>1. kids[k] = 0
      BY <2>0, <2>2, <1>4 DEF ChildrenOf
    <3> QED
      BY <2>2, <3>1, <1>4, <1>5, <1>7 DEF ChildrenOf, FreshRow
  <2> QED
    BY <2>1, <2>2
<1>12. SentOnce'
  <2>1. \A k \in Ids : ord'[k].parent # 0 =>
           sent[k] + kids[k] <= 1 /\ (ord'[k].status = "pending" => sent[k] = 0)
    <3> SUFFICES ASSUME NEW k \in Ids, ord'[k].parent # 0
                 PROVE  sent[k] + kids[k] <= 1 /\ (ord'[k].status = "pending" => sent[k] = 0)
      OBVIOUS
    <3>1. CASE k \notin DOMAIN rows
      BY <3>1, <1>5 DEF SentOnce
    <3>2. CASE k \in DOMAIN rows
      <4>1. sent[k] = 0
        BY <3>2, <1>0, <1>5 DEF SentOnce
      <4>2. kids[k] = 0
        BY <3>2, <1>4 DEF ChildrenOf
      <4> QED
        BY <4>1, <4>2
    <3> QED
      BY <3>1, <3>2
  <2> QED
    BY <1>7, <1>2, <2>1 DEF SentOnce
<1>13. TrailsAgree'
  BY <1>7, <1>2 DEF TrailsAgree
<1>14. Registered'
  <2>1. \A k \in DOMAIN rows : rows[k].status = "pending" /\ rows[k].parent = 0 => InQueue(k, rows[k])
    <3>1. \A k \in DOMAIN rows : rows[k].parent = 0 /\ IsStop(rows[k]) => InQueue(k, rows[k])
      BY <1>0, <1>1 DEF Registered
    <3> QED
      BY <3>1, <1>4 DEF FreshRow
  <2>2. \A k \in Ids \ hurt : ord'[k].status = "pending" /\ ord'[k].parent = 0 =>
          \/ k \in index /\ \E e \in (IF ord'[k].type = "trailing_stop" THEN trailing ELSE stops) : e.id = k
          \/ \E t \in Tasks : task[t].cur = k /\ task[t].pc = "commit"
          \/ \E d \in Clients : k \in api[d].done
    <3> SUFFICES ASSUME NEW k \in Ids \ hurt, ord'[k].status = "pending", ord'[k].parent = 0
                 PROVE \/ InQueue(k, ord'[k])
                       \/ \E t \in Tasks : task[t].cur = k /\ task[t].pc = "commit"
                       \/ \E d \in Clients : k \in api[d].done
      BY DEF InQueue
    <3>1. CASE k \in DOMAIN rows
      BY <3>1, <2>1, <1>5
    <3>2. CASE k \notin DOMAIN rows
      BY <3>2, <1>5 DEF Registered
    <3> QED
      BY <3>1, <3>2
  <2> QED
    BY <1>7, <1>2, <1>3, <2>2 DEF Registered, InQueue
<1>15. LimitsRead'
  <2> SUFFICES ASSUME NEW d \in Clients, NEW k \in Ids, api'[d].cur = k \/ k \in api'[d].done, ~IsStop(ord'[k])
               PROVE  ord'[k].status \in {"new", "canceled"}
    BY DEF LimitsRead
  <2>1. k # 0
    BY StopMonitorAssumption DEF Ids
  <2>2. api'[d] = api[d]
    BY <1>2, <2>1
  <2>3. ord[k].status # "none"
    BY <2>1, <2>2 DEF Held
  <2> QED
    BY <2>2, <2>3, <1>5 DEF LimitsRead
<1>16. FundsExact'
  <2>1. InFlight' = InFlight
    BY <1>7 DEF InFlight
  <2>2. Committed' = Committed \cup Placing(c) /\ Committed \cap Placing(c) = {}
    <3>1. Placing(c) = {k \in DOMAIN rows : ~IsStop(rows[k])}
      BY <1>0 DEF Placing
    <3>2. \A k \in DOMAIN rows : k \notin Committed
      BY <1>4 DEF Committed
    <3>3. \A k \in DOMAIN rows : ~IsStop(rows[k]) => rows[k].status = "new"
      BY <1>4 DEF FreshRow
    <3>4. \A k \in Ids : k \in Committed' <=> k \in Committed \/ k \in Placing(c)
      BY <1>4, <1>5, <3>1, <3>2, <3>3 DEF Committed
    <3> QED
      BY <1>4, <3>1, <3>2, <3>4 DEF Committed
  <2>3. IsFiniteSet(Committed) /\ IsFiniteSet(PlacedBy)
    BY Numbers
  <2>4. IsFiniteSet(Placing(c)) /\ Cardinality(Placing(c)) \in Nat /\ PlacedBy \cap Placing(c) = Placing(c)
    BY <1>2, <2>3, FS_Subset, FS_CardinalityType
  <2>5. Cardinality(PlacedBy \ Placing(c)) = Cardinality(PlacedBy) - Cardinality(PlacedBy \cap Placing(c))
    BY <2>3, FS_Difference
  <2>6. Cardinality(Committed \cup Placing(c)) = Cardinality(Committed) + Cardinality(Placing(c)) - Cardinality({})
    BY <2>2, <2>3, <2>4, FS_Union
  <2>7. Cardinality({}) = 0
    BY FS_EmptySet
  <2>8. Cardinality(Committed') = Cardinality(Committed) + Cardinality(Placing(c))
    BY <2>2, <2>4, <2>6, <2>7, Numbers
  <2>9. Cardinality(PlacedBy') = Cardinality(PlacedBy) - Cardinality(Placing(c))
    BY <1>2, <2>4, <2>5
  <2> QED
    BY <1>7, <2>1, <2>4, <2>8, <2>9, FundsForm, Numbers
<1> QED
  BY <1>8, <1>9, <1>10, <1>11, <1>12, <1>13, <1>14, <1>15, <1>16

LEMMA PlaceRegisterInd ==
    ASSUME Ind, NEW c \in Clients, PlaceRegister(c)
    PROVE  Ind'
<1> USE DEF Ind
<1>0. PICK id : id = Min(api[c].todo)
  OBVIOUS
<1>1. PICK o : o = api[c].rows[id]
  OBVIOUS
<1> DEFINE q == [api[c] EXCEPT !.todo = @ \ {id}]
<1>2. /\ api[c].pc = "register" /\ register(id, o) /\ api' = [api EXCEPT ![c].todo = @ \ {id}]
      /\ UNCHANGED <<ord, avail, rowLock, kids, nextId, inbox, last, app, pair, task, hurt, overrun>>
  BY <1>0, <1>1 DEF PlaceRegister, market
<1>3. IsRequest(api[c]) /\ Staged(api[c])
  BY ApiFacts
<1>4. id \in api[c].todo
  BY <1>0, <1>3, MinIn DEF PlaceRegister, IsRequest
<1>5. /\ id \in DOMAIN api[c].rows /\ id \in Ids /\ o.parent = 0 /\ o \in OrderRow
      /\ id < nextId /\ ord[id].status = "none"
  BY <1>1, <1>2, <1>3, <1>4 DEF Staged, IsRequest, Drawn
<1>6. /\ IsRequest(q) /\ Staged(q) /\ q.pc = "register" /\ q.todo = api[c].todo \ {id} /\ q.rows = api[c].rows
      /\ q.cur = 0 /\ q.done = {} /\ api[c].cur = 0 /\ api[c].done = {}
  BY <1>2, <1>3 DEF IsRequest, Staged
<1>7. /\ DOMAIN api' = Clients /\ api'[c] = q /\ \A d \in Clients \ {c} : api'[d] = api[d]
  BY <1>2, ApiFacts
<1> HIDE DEF q
<1>8. \A d \in Clients : /\ api'[d].rows = api[d].rows /\ api'[d].pc = api[d].pc /\ api'[d].cur = api[d].cur
                         /\ api'[d].done = api[d].done /\ api'[d].todo \subseteq api[d].todo
  BY <1>2, <1>6, <1>7
<1>9. \A d \in Clients : d # c => id \notin DOMAIN api[d].rows
  BY <1>5 DEF Drawn
<1> DEFINE e0 == [id |-> id, at |-> o.stop]
           t0 == [id |-> id, at |-> o.stop, extreme |-> o.stop, side |-> o.side, delta |-> o.delta]
<1>10. e0 \in [id : Ids, at : Int] /\ e0.id = id /\ t0 \in Trail /\ t0.id = id
  BY <1>5 DEF Trail, OrderRow
<1>11. /\ stops' \subseteq stops \cup {e0} /\ stops \subseteq stops'
       /\ trailing' \subseteq trailing \cup {t0} /\ trailing \subseteq trailing'
       /\ (o.type \in {"stop_market", "stop_limit"} => e0 \in stops')
       /\ (o.type = "trailing_stop" => t0 \in trailing')
       /\ index' = index \cup {id}
       /\ sent' = IF IsStop(o) THEN sent ELSE [sent EXCEPT ![id] = @ + 1]
  BY <1>2 DEF register
<1> HIDE DEF e0, t0
<1>12. Ids \subseteq 1 .. 2 * MaxOrders
  BY StopMonitorAssumption DEF Ids
<1>13. sent' \in [1 .. 2 * MaxOrders -> Nat] /\ \A k \in Ids \ {id} : sent'[k] = sent[k]
  BY <1>5, <1>11, <1>12 DEF Typed, TypedRedis
<1>14. Typed'
  <2>1. TypedPg' /\ TypedActors'
    BY <1>2, <1>6, <1>7 DEF Typed, TypedPg, TypedActors
  <2>2. TypedRedis'
    BY <1>2, <1>5, <1>10, <1>11, <1>12, <1>13 DEF Typed, TypedRedis
  <2> QED
    BY <2>1, <2>2 DEF Typed
<1>15. Drawn'
  <2>1. \A d \in Clients : Staged(api'[d])
    BY <1>6, <1>7, ApiFacts
  <2>2. Drawn
    OBVIOUS
  <2> QED
    BY ONLY <1>2, <1>8, <2>1, <2>2 DEF Drawn
<1>16. Held'
  BY <1>2, <1>8 DEF Held
<1>17. (\A k \in Ids : ChildrenOf(k))'
  BY <1>2 DEF ChildrenOf
<1>18. SentOnce'
  <2>1. \A k \in Ids : k >= nextId => sent'[k] = 0
    <3>1. id \in Int /\ nextId \in Int /\ \A k \in Ids : k \in Int
      BY <1>5 DEF Ids, Typed, TypedPg
    <3> QED
      BY <3>1, <1>5, <1>13 DEF SentOnce
  <2>2. \A d \in Clients : \A k \in DOMAIN api[d].rows : api[d].rows[k].parent # 0 => sent'[k] = 0
    <3> SUFFICES ASSUME NEW d \in Clients, NEW k \in DOMAIN api[d].rows, api[d].rows[k].parent # 0
                 PROVE  sent'[k] = 0
      OBVIOUS
    <3>1. k # id /\ k \in Ids
      BY <1>1, <1>5, <1>9, ApiFacts
    <3> QED
      BY <3>1, <1>13 DEF SentOnce
  <2>3. ord[id].parent = 0
    BY <1>5 DEF ChildrenOf, NoOrder
  <2> QED
    BY <1>2, <1>8, <1>13, <2>1, <2>2, <2>3 DEF SentOnce
<1>19. TrailsAgree'
  <2>0. task'["prints"].seen = task["prints"].seen /\ nextId' = nextId
    BY <1>2
  <2> DEFINE seen == task["prints"].seen
  <2>1. /\ \A e, f \in trailing : e.id = f.id => e = f
        /\ \A e, f \in seen : e.id = f.id => e = f
        /\ \A e \in seen, f \in trailing : e.id = f.id => e = f
        /\ \A e \in seen \cup trailing : e.id < nextId
        /\ \A d \in Clients : \A e \in seen \cup trailing : api[d].pc = "register" => e.id \notin api[d].todo
    BY DEF TrailsAgree
  <2> HIDE DEF seen
  <2>2. \A e \in seen \cup trailing : e.id # id
    BY <2>1, <1>2, <1>4
  <2>3. /\ \A e, f \in trailing' : e.id = f.id => e = f
        /\ \A e \in seen, f \in trailing' : e.id = f.id => e = f
        /\ \A e \in seen \cup trailing' : e.id < nextId
    BY <2>1, <2>2, <1>5, <1>10, <1>11
  <2>4. \A d \in Clients : api[d].pc = "register" => id \notin api'[d].todo
    <3> SUFFICES ASSUME NEW d \in Clients, api[d].pc = "register" PROVE id \notin api'[d].todo
      OBVIOUS
    <3>1. CASE d = c
      BY <3>1, <1>6, <1>7
    <3>2. CASE d # c
      <4>1. Staged(api[d]) /\ api'[d] = api[d]
        BY <3>2, <1>7, ApiFacts
      <4> QED
        BY <3>2, <4>1, <1>9 DEF Staged
    <3> QED
      BY <3>1, <3>2
  <2>5. \A d \in Clients : \A e \in seen \cup trailing' : api'[d].pc = "register" => e.id \notin api'[d].todo
    BY <2>1, <2>4, <1>8, <1>10, <1>11
  <2> QED
    BY <2>0, <2>1, <2>3, <2>5 DEF TrailsAgree, seen
<1>20. Registered'
  <2> DEFINE Later(k, p) == k \in index' /\ \E e \in (IF p.type = "trailing_stop" THEN trailing' ELSE stops') : e.id = k
  <2>1. \A k, p : InQueue(k, p) => Later(k, p)
    BY <1>11 DEF InQueue
  <2>2. IsStop(o) => Later(id, o)
    BY <1>10, <1>11 DEF IsStop
  <2> HIDE DEF Later
  <2>3. \A d \in Clients : \A k \in DOMAIN api'[d].rows \ api'[d].todo :
           LET p == api'[d].rows[k] IN p.parent = 0 /\ IsStop(p) => Later(k, p)
    <3> SUFFICES ASSUME NEW d \in Clients, NEW k \in DOMAIN api'[d].rows \ api'[d].todo,
                        api[d].rows[k].parent = 0, IsStop(api[d].rows[k])
                 PROVE  Later(k, api[d].rows[k])
      BY <1>8
    <3>1. CASE d = c /\ k = id
      BY <3>1, <1>1, <2>2
    <3>2. CASE ~(d = c /\ k = id)
      <4>1. k \in DOMAIN api[d].rows \ api[d].todo
        BY <3>2, <1>6, <1>7, <1>8
      <4> QED
        BY <4>1, <2>1 DEF Registered
    <3> QED
      BY <3>1, <3>2
  <2>4. \A k \in Ids \ hurt : ord[k].status = "pending" /\ ord[k].parent = 0 =>
           \/ Later(k, ord[k])
           \/ \E t \in Tasks : task[t].cur = k /\ task[t].pc = "commit"
           \/ \E d \in Clients : k \in api[d].done
    BY <2>1 DEF Registered
  <2> QED
    BY <1>2, <1>8, <2>3, <2>4 DEF Registered, InQueue, Later
<1>21. LimitsRead'
  BY <1>2, <1>8 DEF LimitsRead
<1>22. FundsExact'
  <2>1. \A d \in Clients : Placing(d)' = Placing(d)
    BY <1>8 DEF Placing
  <2>2. Committed' = Committed /\ InFlight' = InFlight /\ PlacedBy' = PlacedBy
    BY <1>2, <2>1 DEF Committed, InFlight, PlacedBy
  <2> QED
    BY <1>2, <2>2, FundsKept
<1> QED
  BY <1>14, <1>15, <1>16, <1>17, <1>18, <1>19, <1>20, <1>21, <1>22

LEMMA PlaceBeginInd ==
    ASSUME Ind, NEW c \in Clients, NEW b \in Batches, PlaceBegin(c, b)
    PROVE  Ind'
<1> USE DEF Ind
<1>0. PICK rows : rows = RowsOf(b, nextId)
  OBVIOUS
<1> DEFINE new == {id \in DOMAIN rows : ~IsStop(rows[id])}
           todo == {id \in DOMAIN rows : rows[id].parent = 0}
           q == [NoRequest EXCEPT !.pc = "register", !.rows = rows, !.todo = todo]
<1>1. /\ api[c].pc = "idle" /\ DOMAIN rows \subseteq Ids /\ Cardinality(new) <= avail
      /\ avail' = avail - Cardinality(new) /\ nextId' = nextId + Cardinality(DOMAIN rows)
      /\ api' = [api EXCEPT ![c] = q]
      /\ UNCHANGED <<ord, rowLock, kids, stops, trailing, index, sent, inbox, last, app, pair, task, hurt, overrun>>
  BY <1>0 DEF PlaceBegin, queues, market
<1>2. b \in Seq(TermSet) /\ nextId \in 1 .. MaxOrders + 1 /\ nextId \in Nat \ {0} /\ MaxOrders \in Nat
  BY StopMonitorAssumption DEF Typed, TypedPg
<1>3. /\ \E n \in Nat : DOMAIN rows = nextId .. nextId + n - 1
      /\ \A k \in DOMAIN rows : rows[k] \in OrderRow /\ FreshRow(rows[k])
  BY <1>0, <1>1, <1>2, RowsOfRequest
<1>4. PICK n \in Nat : DOMAIN rows = nextId .. nextId + n - 1
  BY <1>3
<1>5. nextId' = nextId + n
  <2>1. Cardinality(nextId .. nextId + n - 1) = n
    BY <1>2, FS_Interval
  <2> QED
    BY <2>1, <1>1, <1>4
<1>6. \A k \in DOMAIN rows : k \in Int /\ nextId <= k /\ k < nextId'
  BY <1>2, <1>4, <1>5
<1>7. nextId' \in 1 .. MaxOrders + 1 /\ nextId <= nextId'
  <2>1. CASE n = 0
    BY <2>1, <1>2, <1>5
  <2>2. CASE n # 0
    <3>1. nextId + n - 1 \in DOMAIN rows
      BY <2>2, <1>2, <1>4
    <3>2. nextId + n - 1 <= MaxOrders
      BY <3>1, <1>1, <1>2 DEF Ids
    <3> QED
      BY <3>2, <1>2, <1>5
  <2> QED
    BY <2>1, <2>2
<1>8. /\ IsRequest(q) /\ q.pc = "register" /\ q.rows = rows /\ q.todo = todo /\ q.cur = 0 /\ q.done = {}
  <2>1. todo \subseteq Ids /\ 0 \in 0 .. MaxOrders
    BY <1>1, <1>2
  <2> HIDE DEF todo
  <2> QED
    BY <2>1, <1>1, <1>3 DEF NoRequest, IsRequest
<1>9. Staged(q)
  <2> HIDE DEF q
  <2> QED
    BY <1>3, <1>8 DEF Staged
<1>10. DOMAIN api' = Clients /\ api'[c] = q /\ \A d \in Clients \ {c} : api'[d] = api[d]
  BY <1>1, ApiFacts
<1>11. /\ DOMAIN api[c].rows = {} /\ api[c].cur = 0 /\ api[c].done = {}
  BY <1>1, ApiFacts
<1> HIDE DEF q, todo, new
<1>12. \A d \in Clients : api'[d].cur = api[d].cur /\ api'[d].done = api[d].done
  BY <1>8, <1>10, <1>11
<1>13. \A k \in DOMAIN rows : ord[k].status = "none" /\ sent[k] = 0
  BY <1>1, <1>6, <1>2 DEF Drawn, SentOnce, Ids
<1>14. \A d \in Clients : \A k \in DOMAIN api[d].rows : k \in Int /\ k < nextId
  <2>1. \A k \in Ids : k \in Int
    BY DEF Ids
  <2> QED
    BY <2>1, ApiFacts DEF Drawn
<1>15. \A d \in Clients : DOMAIN api[d].rows \cap DOMAIN rows = {}
  BY <1>2, <1>6, <1>14
<1>16. UNCHANGED <<ord, rowLock, kids, stops, trailing, index, sent, inbox, last, app, pair, task, hurt, overrun>>
  BY <1>1
<1>17. Cardinality(new) \in Nat /\ IsFiniteSet(new) /\ new \subseteq DOMAIN rows
  BY <1>1, Finite DEF new
<1>18. Typed'
  <2>1. avail' \in Nat
    BY <1>1, <1>17 DEF Typed, TypedPg
  <2> QED
    BY <1>7, <1>8, <1>10, <1>16, <2>1 DEF Typed, TypedPg, TypedRedis, TypedActors
<1>19. Drawn'
  <2>1. \A d \in Clients : Staged(api'[d])
    BY <1>9, <1>10, ApiFacts
  <2>2. \A d \in Clients : \A k \in DOMAIN api'[d].rows : k < nextId' /\ ord[k].status = "none"
    <3> SUFFICES ASSUME NEW d \in Clients, NEW k \in DOMAIN api'[d].rows PROVE k < nextId' /\ ord[k].status = "none"
      OBVIOUS
    <3>1. CASE d = c
      BY <3>1, <1>6, <1>8, <1>10, <1>13
    <3>2. CASE d # c
      <4>1. api'[d] = api[d]
        BY <3>2, <1>10
      <4>2. k \in Int /\ k < nextId /\ ord[k].status = "none"
        BY <4>1, <1>14 DEF Drawn
      <4> QED
        BY <4>2, <1>2, <1>7
    <3> QED
      BY <3>1, <3>2
  <2>3. \A d, e \in Clients : d # e => DOMAIN api'[d].rows \cap DOMAIN api'[e].rows = {}
    <3>1. \A d, e \in Clients : d # e => DOMAIN api[d].rows \cap DOMAIN api[e].rows = {}
      BY DEF Drawn
    <3> QED
      BY <3>1, <1>8, <1>10, <1>15
  <2>4. \A k \in Ids : k >= nextId' => ord[k].status = "none"
    <3>1. \A k \in Ids : k >= nextId' => k >= nextId
      BY <1>2, <1>7 DEF Ids
    <3> QED
      BY <3>1 DEF Drawn
  <2> QED
    BY <1>16, <2>1, <2>2, <2>3, <2>4 DEF Drawn
<1>20. Held'
  BY <1>12, <1>16 DEF Held
<1>21. (\A k \in Ids : ChildrenOf(k))'
  BY <1>16 DEF ChildrenOf
<1>22. SentOnce'
  <2>1. \A k \in Ids : k >= nextId' => sent[k] = 0
    <3>1. \A k \in Ids : k >= nextId' => k >= nextId
      BY <1>2, <1>7 DEF Ids
    <3> QED
      BY <3>1 DEF SentOnce
  <2>2. \A d \in Clients : \A k \in DOMAIN api'[d].rows : api'[d].rows[k].parent # 0 => sent[k] = 0
    BY <1>8, <1>10, <1>13 DEF SentOnce
  <2> QED
    BY <1>16, <2>1, <2>2 DEF SentOnce
<1>23. TrailsAgree'
  <2> DEFINE seen == task["prints"].seen
  <2>1. /\ \A e \in seen \cup trailing : e.id < nextId
        /\ \A d \in Clients : \A e \in seen \cup trailing : api[d].pc = "register" => e.id \notin api[d].todo
    BY DEF TrailsAgree
  <2>2. \A e \in seen \cup trailing : e.id \in Int
    BY TaskFacts DEF Trail, TaskState, Ids
  <2>3. \A e \in seen \cup trailing : e.id < nextId' /\ e.id \notin DOMAIN rows
    BY <2>1, <2>2, <1>2, <1>6, <1>7
  <2>4. \A d \in Clients : \A e \in seen \cup trailing : api'[d].pc = "register" => e.id \notin api'[d].todo
    BY <2>1, <2>3, <1>8, <1>10 DEF todo
  <2> HIDE DEF seen
  <2>5. /\ \A e, f \in trailing : e.id = f.id => e = f
        /\ \A e, f \in seen : e.id = f.id => e = f
        /\ \A e \in seen, f \in trailing : e.id = f.id => e = f
    BY DEF TrailsAgree, seen
  <2> QED
    BY <1>16, <2>3, <2>4, <2>5 DEF TrailsAgree, seen
<1>24. Registered'
  <2>1. \A d \in Clients : \A k \in DOMAIN api'[d].rows \ api'[d].todo :
           LET p == api'[d].rows[k] IN p.parent = 0 /\ IsStop(p) => InQueue(k, p)
    BY <1>8, <1>10 DEF Registered, todo
  <2> QED
    BY <1>12, <1>16, <2>1 DEF Registered, InQueue
<1>25. LimitsRead'
  BY <1>12, <1>16 DEF LimitsRead
<1>26. FundsExact'
  <2>1. Committed' = Committed /\ InFlight' = InFlight
    BY <1>16 DEF Committed, InFlight
  <2>2. /\ \A d \in Clients : Placing(d)' = IF d = c THEN new ELSE Placing(d)
        /\ Placing(c) = {}
    BY <1>8, <1>10, <1>11 DEF Placing, new
  <2>3. PlacedBy' = PlacedBy \cup new
    <3>1. \A x : x \in PlacedBy' <=> \E d \in Clients : x \in Placing(d)'
      BY DEF PlacedBy
    <3>2. \A x : x \in PlacedBy <=> \E d \in Clients : x \in Placing(d)
      BY DEF PlacedBy
    <3>3. \A x : x \in PlacedBy' <=> x \in PlacedBy \cup new
      BY <2>2, <3>1, <3>2
    <3> QED
      BY <3>3
  <2>4. PlacedBy \cap new = {}
    BY <1>15, <1>17 DEF PlacedBy, Placing
  <2>5. Cardinality(PlacedBy \cup new) = Cardinality(PlacedBy) + Cardinality(new) - Cardinality({})
    BY <1>17, <2>4, Numbers, FS_Union
  <2>6. Cardinality({}) = 0
    BY FS_EmptySet
  <2>7. Cardinality(PlacedBy') = Cardinality(PlacedBy) + Cardinality(new)
    BY <1>17, <2>3, <2>5, <2>6, Numbers
  <2> QED
    BY <1>1, <1>17, <2>1, <2>7, FundsForm, Numbers
<1> QED
  BY <1>18, <1>19, <1>20, <1>21, <1>22, <1>23, <1>24, <1>25, <1>26

-----------------------------------------------------------------------------
(* Fills, and the end of the process.                                      *)

LEMMA ParentFillsInd ==
    ASSUME Ind, NEW id \in Ids, NEW taker \in BOOLEAN, ParentFills(id, taker)
    PROVE  Ind'
<1> USE DEF Ind
<1> DEFINE act == IF taker THEN activate_sltp_children(id) ELSE {}
<1>1. /\ ord[id].status = "new" /\ ~IsStop(ord[id]) /\ ord[id].parent = 0
      /\ \A k \in {id} \cup act : rowLock[k] = NoOne /\ ~CancelHasRead(k)
      /\ ord' = [k \in Ids |-> IF k = id THEN [ord[k] EXCEPT !.status = "filled"]
                               ELSE IF k \in act THEN [ord[k] EXCEPT !.status = "new"] ELSE ord[k]]
      /\ sent' = [k \in DOMAIN sent |-> IF k \in act THEN sent[k] + 1 ELSE sent[k]]
      /\ index' = index \ {id}
  BY DEF ParentFills
<1>2. UNCHANGED <<rowLock, avail, kids, nextId, stops, trailing, inbox, last, app, pair, task, api, hurt, overrun>>
  BY DEF ParentFills, market
<1>3. id # 0
  BY StopMonitorAssumption DEF Ids
<1>4. \A k \in act : k \in Ids /\ k # id /\ ord[k].parent = id /\ ord[k].parent # 0 /\ ord[k].status = "pending" /\ IsStop(ord[k])
  BY <1>1, <1>3 DEF activate_sltp_children, ChildrenOf
<1> HIDE DEF act
<1>5. \A k \in Ids : ord[k] \in OrderRow
  BY DEF Typed, TypedPg
<1>6. /\ ord'[id] \in OrderRow /\ ord'[id].status = "filled" /\ ord'[id].type = ord[id].type /\ ord'[id].parent = ord[id].parent
      /\ \A k \in act : ord'[k] \in OrderRow /\ ord'[k].status = "new" /\ ord'[k].type = ord[k].type /\ ord'[k].parent = ord[k].parent
      /\ \A k \in Ids : k # id /\ k \notin act => ord'[k] = ord[k]
  <2>1. \A o \in OrderRow, s \in Statuses :
          LET p == [o EXCEPT !.status = s]
          IN  p \in OrderRow /\ p.status = s /\ p.type = o.type /\ p.parent = o.parent
    BY DEF OrderRow
  <2>2. "filled" \in Statuses /\ "new" \in Statuses
    BY DEF Statuses
  <2>3. ord'[id] = [ord[id] EXCEPT !.status = "filled"]
    BY <1>1
  <2>4. \A k \in act : ord'[k] = [ord[k] EXCEPT !.status = "new"]
    BY <1>1, <1>4
  <2>5. \A k \in Ids : k # id /\ k \notin act => ord'[k] = ord[k]
    BY <1>1
  <2>6. /\ ord'[id] \in OrderRow /\ ord'[id].status = "filled" /\ ord'[id].type = ord[id].type /\ ord'[id].parent = ord[id].parent
    BY <2>1, <2>2, <2>3, <1>5
  <2>7. \A k \in act : ord'[k] \in OrderRow /\ ord'[k].status = "new" /\ ord'[k].type = ord[k].type /\ ord'[k].parent = ord[k].parent
    <3> TAKE k \in act
    <3>1. ord[k] \in OrderRow /\ ord'[k] = [ord[k] EXCEPT !.status = "new"]
      BY <2>4, <1>4, <1>5
    <3> QED
      BY <3>1, <2>1, <2>2
  <2> QED
    BY <2>5, <2>6, <2>7
<1>7. ord' \in [Ids -> OrderRow]
  <2>1. ord' = [k \in Ids |-> ord'[k]]
    BY <1>1
  <2> QED
    BY <2>1, <1>4, <1>5, <1>6
<1>8. \A k \in Ids : ord'[k].parent = ord[k].parent /\ (IsStop(ord'[k]) <=> IsStop(ord[k]))
                     /\ (ord[k].status # "none" <=> ord'[k].status # "none")
                     /\ (ord'[k].status = "pending" => k # id /\ ord'[k] = ord[k])
  BY <1>1, <1>4, <1>6 DEF IsStop
<1>9. \A k \in {id} \cup act : rowLock[k] = NoOne /\ ~CancelHasRead(k)
  BY <1>1
<1>10. /\ sent' \in [1 .. 2 * MaxOrders -> Nat]
       /\ \A k \in Ids : sent'[k] = IF k \in act THEN sent[k] + 1 ELSE sent[k]
  <2>1. Ids \subseteq 1 .. 2 * MaxOrders
    BY StopMonitorAssumption DEF Ids
  <2> QED
    BY <2>1, <1>1 DEF Typed, TypedRedis
<1>11. index' = index \ {id}
  BY <1>1
<1>12. Typed'
  BY <1>2, <1>7, <1>10, <1>11 DEF Typed, TypedPg, TypedRedis, TypedActors
<1>13. Drawn'
  <2>1. \A c \in Clients : DOMAIN api[c].rows \subseteq Ids
    BY ApiFacts
  <2> QED
    BY <1>2, <1>8, <2>1 DEF Drawn
<1>14. Held'
  <2>1. \A t \in Tasks : task[t].cur # 0 => ord'[task[t].cur].status = "pending"
    <3> SUFFICES ASSUME NEW t \in Tasks, task[t].cur # 0 PROVE ord'[task[t].cur].status = "pending"
      OBVIOUS
    <3>1. task[t].cur \in Ids
      BY TaskFacts, StopMonitorAssumption DEF TaskState, Ids
    <3>2. rowLock[task[t].cur] = t /\ t # NoOne
      BY <3>1, StopMonitorAssumption DEF Held
    <3>3. task[t].cur # id /\ task[t].cur \notin act
      BY <3>2, <1>9
    <3> QED
      BY <3>1, <3>3, <1>6 DEF Held
  <2>2. \A c \in Clients : api[c].cur # 0 => ord'[api[c].cur].status # "none"
    BY <1>8, ApiFacts DEF Held
  <2>3. \A c \in Clients : \A k \in api[c].done : ord'[k] = ord[k]
    <3>1. \A c \in Clients : \A k \in api[c].done : k \in Ids /\ CancelHasRead(k)
      BY ApiFacts DEF CancelHasRead
    <3> QED
      BY <3>1, <1>6, <1>9
  <2>4. \A c \in Clients : \A k \in api[c].done :
           ord'[k].status # "none" /\ (ord'[k].status = "filled" /\ IsStop(ord'[k]) => k \in overrun)
    BY <2>3 DEF Held
  <2> QED
    BY <1>2, <2>1, <2>2, <2>4 DEF Held
<1>15. (\A k \in Ids : ChildrenOf(k))'
  <2> SUFFICES ASSUME NEW k \in Ids PROVE ChildrenOf(k)'
    OBVIOUS
  <2>0. ChildrenOf(k)
    OBVIOUS
  <2>1. CASE k # id /\ k \notin act
    BY <2>0, <2>1, <1>2, <1>6 DEF ChildrenOf
  <2>2. CASE k = id
    <3>1. kids[k] = 0
      BY <2>0, <2>2, <1>1 DEF ChildrenOf
    <3> QED
      BY <2>2, <3>1, <1>1, <1>2, <1>6, <1>8 DEF ChildrenOf
  <2>3. CASE k \in act
    <3>1. kids[k] = 0
      BY <2>0, <2>3, <1>4 DEF ChildrenOf
    <3> QED
      BY <2>3, <3>1, <1>2, <1>4, <1>6, <1>8 DEF ChildrenOf
  <2> QED
    BY <2>1, <2>2, <2>3
<1>16. SentOnce'
  <2>1. \A k \in act : k \in Ids /\ sent[k] = 0 /\ kids[k] = 0 /\ ~(k >= nextId)
    BY <1>4 DEF SentOnce, ChildrenOf, Drawn
  <2>2. \A c \in Clients : \A k \in DOMAIN api[c].rows : k \in Ids /\ k \notin act
    BY <1>4, ApiFacts DEF Drawn
  <2>3. \A k \in Ids : ord'[k].parent # 0 => sent'[k] + kids[k] <= 1 /\ (ord'[k].status = "pending" => sent'[k] = 0)
    <3> SUFFICES ASSUME NEW k \in Ids, ord'[k].parent # 0
                 PROVE  sent'[k] + kids[k] <= 1 /\ (ord'[k].status = "pending" => sent'[k] = 0)
      OBVIOUS
    <3>1. CASE k \in act
      BY <3>1, <2>1, <1>6, <1>10
    <3>2. CASE k \notin act
      BY <3>2, <1>8, <1>10 DEF SentOnce
    <3> QED
      BY <3>1, <3>2
  <2> QED
    BY <1>2, <1>10, <2>1, <2>2, <2>3 DEF SentOnce
<1>17. TrailsAgree'
  BY <1>2 DEF TrailsAgree
<1>18. Registered'
  <2> DEFINE Later(k, o) == k \in index' /\ \E e \in (IF o.type = "trailing_stop" THEN trailing' ELSE stops') : e.id = k
  <2>1. \A k, o : k # id /\ InQueue(k, o) => Later(k, o)
    BY <1>2, <1>11 DEF InQueue
  <2>2. \A c \in Clients : id \notin DOMAIN api[c].rows
    BY <1>1 DEF Drawn
  <2> HIDE DEF Later
  <2>3. \A c \in Clients : \A k \in DOMAIN api[c].rows \ api[c].todo :
           LET o == api[c].rows[k] IN o.parent = 0 /\ IsStop(o) => Later(k, o)
    BY <2>1, <2>2 DEF Registered
  <2>4. \A k \in Ids \ hurt : ord'[k].status = "pending" /\ ord'[k].parent = 0 =>
           \/ Later(k, ord'[k])
           \/ \E u \in Tasks : task[u].cur = k /\ task[u].pc = "commit"
           \/ \E c \in Clients : k \in api[c].done
    BY <1>8, <2>1 DEF Registered
  <2> QED
    BY <1>2, <2>3, <2>4 DEF Registered, InQueue, Later
<1>19. LimitsRead'
  <2> SUFFICES ASSUME NEW c \in Clients, NEW k \in Ids, api[c].cur = k \/ k \in api[c].done, ~IsStop(ord'[k])
               PROVE  ord'[k].status \in {"new", "canceled"}
    BY <1>2 DEF LimitsRead
  <2>1. CancelHasRead(k)
    BY DEF CancelHasRead
  <2>2. k # id /\ k \notin act
    BY <2>1, <1>9
  <2> QED
    BY <2>2, <1>6 DEF LimitsRead
<1>20. FundsExact'
  <2>1. InFlight' = InFlight /\ PlacedBy' = PlacedBy
    BY <1>2 DEF InFlight, PlacedBy, Placing
  <2>2. \A k \in Ids : k \in Committed' <=> k \in Committed
    BY <1>1, <1>4, <1>6, <1>8 DEF Committed
  <2>3. Committed' = Committed
    BY <2>2 DEF Committed
  <2> QED
    BY <1>2, <2>1, <2>3, FundsKept
<1> QED
  BY <1>12, <1>13, <1>14, <1>15, <1>16, <1>17, <1>18, <1>19, <1>20

LEMMA StopInd == Ind /\ Stop => Ind'
<1> SUFFICES ASSUME Ind, Stop PROVE Ind'
  OBVIOUS
<1> USE DEF Ind
<1>1. /\ app' = [app EXCEPT !.up = FALSE, !.monitor = FALSE]
      /\ task' = [t \in Tasks |-> NoTask] /\ api' = [c \in Clients |-> NoRequest]
      /\ rowLock' = [k \in Ids |-> NoOne]
      /\ avail' = avail + Cardinality(InFlight) + Cardinality(PlacedBy)
      /\ hurt' = hurt \cup {task[t].cur : t \in InFlight} \cup
                   UNION {DOMAIN api[c].rows \cup api[c].done : c \in Clients}
      /\ inbox' = <<>>
  BY DEF Stop, PlacedBy
<1>2. UNCHANGED <<ord, kids, nextId, stops, trailing, index, sent, last, pair, overrun>>
  BY DEF Stop, queues
<1>3. app' \in AppState /\ app'.up = FALSE /\ app'.monitor = FALSE
  BY <1>1, TaskFacts DEF AppState
<1>4. /\ task' \in [Tasks -> TaskState] /\ \A t \in Tasks : task'[t] = NoTask
  BY <1>1, NoTaskFacts
<1>5. DOMAIN api' = Clients /\ \A c \in Clients : api'[c] = NoRequest
  BY <1>1
<1>6. rowLock' \in [Ids -> {NoOne} \cup Clients \cup Tasks] /\ \A k \in Ids : rowLock'[k] = NoOne
  BY <1>1
<1>7. hurt' \subseteq Ids /\ hurt \subseteq hurt'
  <2>1. \A t \in InFlight : task[t].cur \in Ids
    BY TaskFacts, StopMonitorAssumption DEF TaskState, Ids, InFlight
  <2>2. \A c \in Clients : DOMAIN api[c].rows \subseteq Ids /\ api[c].done \subseteq Ids
    BY ApiFacts
  <2>3. hurt \subseteq Ids
    BY DEF Typed, TypedActors
  <2> QED
    BY <1>1, <2>1, <2>2, <2>3
<1>8. Typed'
  <2>1. avail' \in Nat
    BY <1>1, Numbers
  <2>2. TypedPg' /\ TypedRedis'
    BY <1>1, <1>2, <1>6, <2>1 DEF Typed, TypedPg, TypedRedis
  <2>3. TypedActors'
    BY <1>2, <1>3, <1>4, <1>5, <1>7, NoRequestFacts DEF Typed, TypedActors
  <2> QED
    BY <2>2, <2>3 DEF Typed
<1>9. Drawn'
  BY <1>2, <1>5, NoRequestFacts DEF Drawn
<1>10. Held'
  BY <1>3, <1>4, <1>5, <1>6, NoRequestFacts, NoTaskFacts, TaskFacts, StopMonitorAssumption DEF Held, Doing, Ids
<1>11. (\A k \in Ids : ChildrenOf(k))'
  BY <1>2 DEF ChildrenOf
<1>12. SentOnce'
  BY <1>2, <1>5, NoRequestFacts DEF SentOnce
<1>13. TrailsAgree'
  BY <1>2, <1>4, <1>5, NoRequestFacts, NoTaskFacts, TaskFacts DEF TrailsAgree
<1>14. Registered'
  <2>1. \A k \in Ids \ hurt' : \A t \in Tasks : task[t].cur # k
    <3>1. \A k \in Ids : k # 0
      BY StopMonitorAssumption DEF Ids
    <3>2. \A t \in Tasks : task[t].cur # 0 => task[t].cur \in hurt'
      BY <1>1 DEF InFlight
    <3> QED
      BY <3>1, <3>2
  <2>2. \A k \in Ids \ hurt' : \A c \in Clients : k \notin api[c].done
    BY <1>1
  <2>3. \A k \in Ids \ hurt' : ord[k].status = "pending" /\ ord[k].parent = 0 => InQueue(k, ord[k])
    BY <1>7, <2>1, <2>2 DEF Registered
  <2> QED
    BY <1>2, <1>5, <2>3, NoRequestFacts DEF Registered, InQueue
<1>15. LimitsRead'
  BY <1>2, <1>5, NoRequestFacts, StopMonitorAssumption DEF LimitsRead, Ids
<1>16. FundsExact'
  <2>1. Committed' = Committed
    BY <1>2 DEF Committed
  <2>2. InFlight' = {}
    BY <1>4, NoTaskFacts DEF InFlight
  <2>3. PlacedBy' = {}
    BY <1>5, NoRequestFacts DEF PlacedBy, Placing
  <2> QED
    BY <1>1, <1>2, <2>1, <2>2, <2>3, FundsForm, Numbers, FS_EmptySet
<1> QED
  BY <1>8, <1>9, <1>10, <1>11, <1>12, <1>13, <1>14, <1>15, <1>16

-----------------------------------------------------------------------------
(* The theorems.                                                           *)

LEMMA StutterInd == Ind /\ UNCHANGED vars => Ind'
<1> SUFFICES ASSUME Ind, UNCHANGED vars PROVE Ind'
  OBVIOUS
<1>1. UNCHANGED <<ord, rowLock, avail, kids, nextId, stops, trailing, index, sent, api, hurt, overrun,
                  last, inbox, task, app, pair>>
  BY DEF vars, queues, market
<1> QED
  BY <1>1, TasksMove, TaskFacts

LEMMA NextInd == Ind /\ [Next]_vars => Ind'
<1> SUFFICES ASSUME Ind, [Next]_vars PROVE Ind'
  OBVIOUS
<1>1. CASE UNCHANGED vars
  BY <1>1, StutterInd
<1>2. ASSUME NEW c \in Clients, Place(c) PROVE Ind'
  BY <1>2, PlaceBeginInd DEF Place
<1>3. ASSUME NEW c \in Clients, Cancel(c) PROVE Ind'
  BY <1>3, CancelBeginInd DEF Cancel
<1>4. ASSUME NEW c \in Clients, RequestStep(c) PROVE Ind'
  BY <1>4, PlaceRegisterInd, PlaceCommitInd, CancelReadInd, CancelUpdateInd, CancelRedisInd, CancelCommitInd
     DEF RequestStep
<1>5. ASSUME NEW c \in Clients, PlaceFails(c) \/ CancelFails(c) PROVE Ind'
  BY <1>5, PlaceFailsInd, CancelFailsInd
<1>6. ASSUME NEW price \in Prices, NEW real \in BOOLEAN, TradePrint(price, real) PROVE Ind'
  BY <1>6, TradePrintInd
<1>7. ASSUME NEW id \in Ids, NEW taker \in BOOLEAN, ParentFills(id, taker) PROVE Ind'
  BY <1>7, ParentFillsInd
<1>8. CASE CreatePair \/ Start \/ Stop \/ Refresh \/ ConnectionLost
  BY <1>8, CreatePairInd, StartInd, StopInd, RefreshInd, ConnectionLostInd
<1>9. CASE PrintStep \/ RescanStep
  BY <1>9, SubscribeInd, ReceiveInd, TrailLoadInd, TrailStoreInd, QueryInd, RescanListInd DEF PrintStep, RescanStep
<1>10. ASSUME NEW t \in Tasks, TriggerStep(t) PROVE Ind'
  BY <1>10, TriggerSkipInd, TriggerLockInd, TriggerEnqueueInd, TriggerUnregisterInd, TriggerCommitInd, TriggersDoneInd
     DEF TriggerStep
<1>11. ASSUME NEW t \in Tasks, TriggerFails(t) PROVE Ind'
  BY <1>11, TriggerFailsInd
<1> QED
  BY <1>1, <1>2, <1>3, <1>4, <1>5, <1>6, <1>7, <1>8, <1>9, <1>10, <1>11 DEF Next

\* Whatever requests, prints, restarts and failures meet: rows, locks, queues and
\* tasks keep their types, a row is written by its holder only, ids are drawn once,
\* and the accounts of order_service and the stop monitor agree.
THEOREM StopsConsistent == Spec => []Ind
<1>1. Init => Ind
  BY InitInd
<1>2. Ind /\ [Next]_vars => Ind'
  BY NextInd
<1> QED
  BY <1>1, <1>2, PTL DEF Spec

\* The funds of a user are available, or in a limit order placed and not canceled,
\* or in the child of a triggered stop, or in an open transaction of
\* place_bulk_orders or _trigger_stop_order, each unit in one place.
THEOREM FundsAccounted == Spec => []FundsExact
<1>1. Ind => FundsExact
  BY DEF Ind
<1> QED
  BY <1>1, StopsConsistent, PTL

\* _trigger_stop_order turns a stop into one child order, whichever of the print's
\* task and the rescan gets it, and a cancel that overtakes a trigger is the only
\* way for a stop with a child to end CANCELED.
THEOREM TriggeredOnce == Spec => []OneChildPerStop
<1>1. ASSUME Ind PROVE OneChildPerStop
  <2> USE <1>1 DEF Ind
  <2>1. avail \in 0 .. Funds
    <3> HIDE DEF Ind
    <3>1. Typed /\ FundsExact
      BY DEF Ind
    <3> QED
      BY <3>1, FundsForm, Numbers
  <2>2. \A id \in Ids : /\ ord[id].status \in {"none", "pending", "new", "filled", "canceled"}
                        /\ ord[id].parent \in {0} \cup Ids
                        /\ rowLock[id] \in {NoOne} \cup Clients \cup Tasks
    <3>1. \A id \in Ids : ord[id] \in OrderRow /\ rowLock[id] \in {NoOne} \cup Clients \cup Tasks
      BY DEF Typed, TypedPg
    <3>2. 0 .. MaxOrders = {0} \cup Ids
      BY StopMonitorAssumption DEF Ids
    <3> QED
      BY <3>1, <3>2 DEF OrderRow, Statuses
  <2>3. \A e \in stops \cup trailing : e.id \in Ids /\ e.at \in Int
    BY DEF Typed, TypedRedis, Trail
  <2>4. \A t \in Tasks : task[t].todo \subseteq Ids /\ task[t].cur \in {0} \cup Ids
    BY StopMonitorAssumption DEF Typed, TypedActors, TaskState, Ids
  <2>5. \A c \in Clients : api[c].todo \subseteq Ids /\ api[c].cur \in {0} \cup Ids
    BY ApiFacts
  <2>6. TypeOK
    BY <2>1, <2>2, <2>3, <2>4, <2>5 DEF TypeOK, Typed, TypedPg, TypedRedis, TypedActors
  <2>7. ASSUME NEW id \in Ids, IsStop(ord[id])
        PROVE  /\ kids[id] <= 1
               /\ ord[id].status = "filled" => kids[id] = 1
               /\ kids[id] = 1 => ord[id].status = "filled" \/ (ord[id].status = "canceled" /\ id \in overrun)
    BY <2>2, <2>7 DEF ChildrenOf
  <2> QED
    BY <2>6, <2>7 DEF OneChildPerStop
<1> QED
  BY <1>1, StopsConsistent, PTL

\* A pending stop stays in its Redis queue and in the open-orders index until the
\* holder of its row takes it out, or its transaction fails half-way.
THEOREM StopsRemembered == Spec => []NoStopForgotten
<1>1. Ind => NoStopForgotten
  BY DEF Ind, Registered, InQueue, NoStopForgotten
<1> QED
  BY <1>1, StopsConsistent, PTL

\* _activate_sltp_children and the rescan never both act on an SL/TP child.
THEOREM ChildrenActOnce == Spec => []SltpActsOnce
<1>1. Ind => SltpActsOnce
  BY DEF Ind, SentOnce, SltpActsOnce
<1> QED
  BY <1>1, StopsConsistent, PTL

\* What the monitor stores for a trailing stop, it computes from the state that is
\* there: nobody changes it between the load and the store.
Ratchet ==
    \A e \in trailing, f \in trailing' : e.id = f.id =>
        /\ e.side = "sell" /\ e.at = e.extreme - e.delta => f.at >= e.at
        /\ e.side = "buy" /\ e.at = e.extreme + e.delta => f.at <= e.at

LEMMA KeepsRatchet ==
    ASSUME Ind, trailing' \subseteq trailing
    PROVE  Ratchet
<1>1. \A e, f \in trailing : e.id = f.id => e = f
  BY DEF Ind, TrailsAgree
<1>2. \A e \in trailing : e.at \in Int
  BY TaskFacts DEF Trail
<1> QED
  BY <1>1, <1>2 DEF Ratchet

LEMMA RegisterRatchet ==
    ASSUME Ind, NEW c \in Clients, PlaceRegister(c)
    PROVE  Ratchet
<1>0. PICK id : id = Min(api[c].todo)
  OBVIOUS
<1>1. id \in api[c].todo /\ api[c].pc = "register"
  BY <1>0, ApiFacts, MinIn DEF PlaceRegister
<1>2. PICK t0 : t0.id = id /\ trailing' \subseteq trailing \cup {t0}
  <2> DEFINE o == api[c].rows[id]
             e0 == [id |-> id, at |-> o.stop, extreme |-> o.stop, side |-> o.side, delta |-> o.delta]
  <2>1. e0.id = id
    OBVIOUS
  <2>2. trailing' \subseteq trailing \cup {e0}
    BY <1>0 DEF PlaceRegister, register
  <2> HIDE DEF e0
  <2> QED
    BY <2>1, <2>2
<1>3. /\ \A e, f \in trailing : e.id = f.id => e = f
      /\ \A e \in trailing : e.id # id
  BY <1>1 DEF Ind, TrailsAgree
<1>4. \A e \in trailing : e.at \in Int
  BY TaskFacts DEF Trail
<1> QED
  BY <1>2, <1>3, <1>4 DEF Ratchet

LEMMA StoreRatchet ==
    ASSUME Ind, TrailStore
    PROVE  Ratchet
<1> DEFINE seen == task["prints"].seen
           price == task["prints"].price
<1>1. /\ price \in Nat
      /\ \A f \in trailing' : \/ f \in trailing /\ \A m \in seen : Trails(m, price) => m.id # f.id
                              \/ \E m \in seen : Trails(m, price) /\ f = Stored(m, price)
  BY TrailStoreFacts
<1>2. /\ \A e, f \in trailing : e.id = f.id => e = f
      /\ \A e \in seen, f \in trailing : e.id = f.id => e = f
  BY DEF Ind, TrailsAgree
<1>3. trailing \subseteq Trail /\ seen \subseteq Trail
  BY TaskFacts DEF TaskState
<1> HIDE DEF seen, price
<1>4. SUFFICES ASSUME NEW e \in trailing, NEW f \in trailing', e.id = f.id
               PROVE  /\ e.side = "sell" /\ e.at = e.extreme - e.delta => f.at >= e.at
                      /\ e.side = "buy" /\ e.at = e.extreme + e.delta => f.at <= e.at
  BY DEF Ratchet
<1>5. e \in Trail /\ e.at \in Int /\ e.extreme \in Int /\ e.delta \in Int
  BY <1>3 DEF Trail
<1>6. CASE f \in trailing
  BY <1>2, <1>4, <1>5, <1>6
<1>7. CASE \E m \in seen : Trails(m, price) /\ f = Stored(m, price)
  <2>1. PICK m \in seen : Trails(m, price) /\ f = Stored(m, price)
    BY <1>7
  <2>2. m = e
    BY <1>1, <1>2, <1>3, <1>4, <2>1, StoredTrail
  <2>3. f = Trailed(e, price)
    BY <2>1, <2>2 DEF Stored
  <2>4. f.at = IF e.side = "sell" THEN price - e.delta ELSE price + e.delta
    BY <1>1, <1>5, <2>3, StoredTrail
  <2>5. /\ e.side = "sell" => price > e.extreme
        /\ e.side = "buy" => price < e.extreme
    BY <2>1, <2>2 DEF Trails
  <2> QED
    BY <1>1, <1>5, <2>4, <2>5
<1> QED
  BY <1>1, <1>6, <1>7

\* update_trailing_extremes moves the trigger of a stop that follows the market only
\* the way that protects the position, also when the stop is canceled, or another is
\* registered, between its load and its store.
THEOREM TriggersRatchet == Spec => TrailingRatchet
<1>1. ASSUME Ind, [Next]_vars PROVE [Ratchet]_vars
  <2> SUFFICES ASSUME Next PROVE Ratchet
    BY <1>1
  <2>1. ASSUME NEW c \in Clients, PlaceRegister(c) PROVE Ratchet
    BY <1>1, <2>1, RegisterRatchet
  <2>2. CASE TrailStore
    BY <1>1, <2>2, StoreRatchet
  <2>3. ASSUME NEW c \in Clients, CancelRedis(c) PROVE Ratchet
    <3>1. trailing' \subseteq trailing
      BY <2>3 DEF CancelRedis, unregister
    <3> QED
      BY <1>1, <3>1, KeepsRatchet
  <2>4. ASSUME NEW t \in Tasks, TriggerUnregister(t) PROVE Ratchet
    <3>1. trailing' \subseteq trailing
      BY <2>4 DEF TriggerUnregister, unregister
    <3> QED
      BY <1>1, <3>1, KeepsRatchet
  <2>5. CASE trailing' = trailing
    BY <1>1, <2>5, KeepsRatchet
  <2>6. ASSUME NEW c \in Clients, Place(c) \/ Cancel(c) \/ PlaceFails(c) \/ CancelFails(c) PROVE trailing' = trailing
    BY <2>6 DEF Place, Cancel, PlaceBegin, CancelBegin, PlaceFails, CancelFails, queues
  <2>7. ASSUME NEW c \in Clients, PlaceCommit(c) \/ CancelRead(c) \/ CancelUpdate(c) \/ CancelCommit(c) PROVE trailing' = trailing
    BY <2>7 DEF PlaceCommit, CancelRead, CancelUpdate, CancelCommit, queues
  <2>8. ASSUME NEW price \in Prices, NEW real \in BOOLEAN, TradePrint(price, real) PROVE trailing' = trailing
    BY <2>8 DEF TradePrint, queues
  <2>9. ASSUME NEW id \in Ids, NEW taker \in BOOLEAN, ParentFills(id, taker) PROVE trailing' = trailing
    BY <2>9 DEF ParentFills
  <2>10. CASE CreatePair \/ Start \/ Stop \/ Refresh \/ ConnectionLost
    <3>1. trailing' = trailing
      BY <2>10 DEF CreatePair, Start, Stop, Refresh, ConnectionLost, queues
    <3> QED
      BY <2>5, <3>1
  <2>11. CASE Subscribe \/ Receive \/ TrailLoad \/ Query \/ RescanStep
    <3>1. trailing' = trailing
      BY <2>11 DEF Subscribe, Receive, TrailLoad, Query, RescanStep, RescanList, queues
    <3> QED
      BY <2>5, <3>1
  <2>12. ASSUME NEW t \in Tasks, TriggerSkip(t) \/ TriggerLock(t) \/ TriggerEnqueue(t) \/ TriggerCommit(t)
                                 \/ TriggersDone(t) \/ TriggerFails(t)
         PROVE  trailing' = trailing
    BY <2>12 DEF TriggerSkip, TriggerLock, TriggerEnqueue, TriggerCommit, TriggersDone, TriggerFails, queues
  <2>13. CASE \E c \in Clients : Place(c) \/ Cancel(c) \/ RequestStep(c) \/ PlaceFails(c) \/ CancelFails(c)
    BY <2>13, <2>1, <2>3, <2>5, <2>6, <2>7 DEF RequestStep
  <2>14. CASE PrintStep \/ RescanStep
    BY <2>14, <2>2, <2>11 DEF PrintStep
  <2>15. CASE \E t \in Tasks : TriggerStep(t) \/ TriggerFails(t)
    BY <2>15, <2>4, <2>5, <2>12 DEF TriggerStep
  <2> QED
    BY <2>5, <2>8, <2>9, <2>10, <2>13, <2>14, <2>15 DEF Next
<1>2. TrailingRatchet <=> [][Ratchet]_vars
  BY DEF TrailingRatchet, Ratchet
<1> QED
  BY <1>1, <1>2, StopsConsistent, PTL DEF Spec
=============================================================================
