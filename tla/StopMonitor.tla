---------------------------- MODULE StopMonitor ----------------------------
(***************************************************************************)
(* Stop, stop-limit and trailing orders, SL/TP children and bulk requests  *)
(* of one user on one pair: order_service (place, cancel, single or bulk), *)
(* the Redis stop queues (redis_client/stops.py), the open-orders index,   *)
(* StopMonitorService and trade_service's activation of children.          *)
(*                                                                         *)
(* ord holds the committed order rows; what an open transaction has        *)
(* written is kept with its actor.  A row lock is held to the end of the   *)
(* transaction.  Redis commands take effect at once.  Every order needs    *)
(* one unit of funds; the balance row's own locking is BalanceService's    *)
(* subject, so a lock of funds is one step here.                           *)
(***************************************************************************)
EXTENDS Integers, Sequences, FiniteSets, FiniteSetsExt, Functions

CONSTANTS
    Clients,        \* API requests in progress at the same time
    NoOne,          \* "the row is free"
    Batches,        \* requests users may make: sequences of order terms
    MaxOrders,      \* bound: order rows, SL/TP children included
    Funds,          \* what the user has
    Prices,         \* prices of trade prints
    MaxPrints,      \* bound: trade prints
    MaxTrouble,     \* bound: starts of the application and failures, together
    Emulator,       \* does an administrator inject synthetic prints?
    OtherPairs,     \* does the exchange have other active pairs?
    MaxFaults       \* bound: transactions that fail half-way and lost connections

\* Terms of an order: type, side, stop price (0: none), trailing delta, and
\* whether it brings a stop-loss child with the same stop price.
TermSet == [type : {"limit", "stop_market", "stop_limit", "trailing_stop"}, side : {"buy", "sell"},
            stop : Nat, delta : Nat, sl : BOOLEAN]

Tasks == {"prints", "rescan"}           \* the monitor's task for the symbol; start()'s rescan

ASSUME StopMonitorAssumption ==
    /\ MaxOrders \in Nat /\ Funds \in Nat /\ MaxPrints \in Nat /\ MaxTrouble \in Nat
    /\ Prices \subseteq Nat \ {0} /\ MaxFaults \in Nat /\ OtherPairs \in BOOLEAN /\ Emulator \in BOOLEAN
    /\ \A b \in Batches : b \in Seq(TermSet) /\ b # <<>>
    /\ NoOne \notin Clients \cup Tasks /\ Clients \cap Tasks = {}

Ids == 1 .. MaxOrders
Child(id) == MaxOrders + id             \* the order a triggered stop turns into

VARIABLES
    ord,        \* committed rows: [status, type, side, stop, delta, parent]
    rowLock,    \* holder of each order row
    avail,      \* available funds
    stops,      \* stops:{symbol}: [id, at]
    trailing,   \* trailing:{symbol} and the state HASHes: [id, at, extreme, side, delta]
    index,      \* user:{uid}:open_orders
    sent,       \* how often each order was sent to the matching worker
    kids,       \* committed children of each stop
    last,       \* last trade price in PostgreSQL, 0 when there is none
    inbox,      \* prints the subscription has not delivered yet
    prints,     \* prints so far
    app,        \* is the application running, and how often has it started
    pair,       \* is the trading pair there?
    task,       \* what each of the monitor's tasks is doing
    extremes,   \* _local_high and _local_low (0: None)
    api,        \* API requests
    nextId,     \* the orders table's id sequence
    faults,     \* failures so far
    hurt,       \* history: orders whose transaction failed half-way
    overrun     \* history: stops triggered after a cancel had read them as pending

pg == <<ord, avail, kids, last>>
queues == <<stops, trailing, index, sent>>
market == <<last, inbox, prints>>
vars == <<ord, rowLock, avail, kids, queues, market, app, pair, task, extremes, api, nextId,
          faults, hurt, overrun>>

-----------------------------------------------------------------------------
(* Orders.                                                                 *)

NoOrder == [status |-> "none", type |-> "limit", side |-> "buy", stop |-> 0, delta |-> 0, parent |-> 0]

IsStop(o) == o.type \in {"stop_market", "stop_limit", "trailing_stop"}
Active(o) == o.status \in {"new", "pending"}

Opposite(side) == IF side = "buy" THEN "sell" ELSE "buy"

\* The row place_order inserts: a stop waits and locks nothing.
Row(t) == [status |-> IF IsStop(t) THEN "pending" ELSE "new", type |-> t.type, side |-> t.side,
           stop |-> t.stop, delta |-> t.delta, parent |-> 0]

\* _create_sltp_child.
create_sltp_child(t, id) == [status |-> "pending", type |-> "stop_market", side |-> Opposite(t.side),
                             stop |-> t.stop, delta |-> 0, parent |-> id]

\* The rows of a request, in the order of their ids: each order, then its child.
RowsOf(b, first) ==
    LET width(t) == IF t.sl THEN 2 ELSE 1
        at(k) == first + SumFunction([j \in 1 .. k - 1 |-> width(b[j])])
        ids == first .. first + SumFunction([j \in DOMAIN b |-> width(b[j])]) - 1
    IN  [id \in ids |-> LET k == CHOOSE j \in DOMAIN b : at(j) <= id /\ id < at(j) + width(b[j])
                        IN  IF id = at(k) THEN Row(b[k]) ELSE create_sltp_child(b[k], at(k))]

\* What the price of a print has to be for the stop to fire.
Crossed(o, price) == IF o.side = "sell" THEN price <= o.stop ELSE price >= o.stop

\* Within the bounds on failures.
MayFail == faults < MaxFaults /\ app.starts + faults < MaxTrouble

Unlock(who) == [id \in Ids |-> IF rowLock[id] = who THEN NoOne ELSE rowLock[id]]

-----------------------------------------------------------------------------
(* API requests: place_order and place_bulk_orders, cancel_order and       *)
(* cancel_bulk_orders.  A single request is a bulk of one.                 *)

NoRequest == [pc |-> "idle", rows |-> <<>>, todo |-> {}, cur |-> 0, done |-> {}]

\* Mutant: a rollback gives funds back for the stops too.
PlacingAll(c) == DOMAIN api[c].rows

\* The limit orders a request has locked funds for and not committed.
Placing(c) == {id \in DOMAIN api[c].rows : ~IsStop(api[c].rows[id])}

\* Validation, the locks of all assets, the INSERTs and the flush.  A request
\* that cannot be funded is rejected as a whole.
PlaceBegin(c, b) ==
    LET rows == RowsOf(b, nextId)
        need == Cardinality({id \in DOMAIN rows : ~IsStop(rows[id])})
    IN  /\ app.up /\ api[c].pc = "idle" /\ DOMAIN rows \subseteq Ids /\ pair
        /\ need <= avail
        /\ avail' = avail - need
        /\ nextId' = nextId + Cardinality(DOMAIN rows)
        /\ api' = [api EXCEPT ![c] = [NoRequest EXCEPT !.pc = "register", !.rows = rows,
                                         !.todo = {id \in DOMAIN rows : rows[id].parent = 0}]]
        /\ UNCHANGED <<ord, rowLock, kids, queues, market, app, pair, task, extremes, faults, hurt, overrun>>

\* register_trailing_stop / add_stop_order / enqueue, and add_open_order, for the
\* next order of the request; before the commit.
register(id, o) ==
    /\ stops' = IF o.type \in {"stop_market", "stop_limit"} THEN stops \cup {[id |-> id, at |-> o.stop]} ELSE stops
    /\ trailing' = IF o.type # "trailing_stop" THEN trailing
                   ELSE trailing \cup {[id |-> id, at |-> o.stop, extreme |-> o.stop,
                                        side |-> o.side, delta |-> o.delta]}
    /\ sent' = IF IsStop(o) THEN sent ELSE [sent EXCEPT ![id] = @ + 1]
    /\ index' = index \cup {id}

PlaceRegister(c) ==
    LET id == Min(api[c].todo)
    IN  /\ api[c].pc = "register" /\ api[c].todo # {}
        /\ register(id, api[c].rows[id])
        /\ api' = [api EXCEPT ![c].todo = @ \ {id}]
        /\ UNCHANGED <<ord, rowLock, avail, kids, market, app, pair, task, extremes, nextId, faults, hurt, overrun>>

PlaceCommit(c) ==
    /\ api[c].pc = "register" /\ api[c].todo = {}
    /\ ord' = [id \in Ids |-> IF id \in DOMAIN api[c].rows THEN api[c].rows[id] ELSE ord[id]]
    /\ api' = [api EXCEPT ![c] = NoRequest]
    /\ UNCHANGED <<rowLock, avail, kids, queues, market, app, pair, task, extremes, nextId, faults, hurt, overrun>>

\* The transaction is rolled back; what was registered in Redis stays.
PlaceFails(c) ==
    LET rows == api[c].rows
    IN  /\ MayFail /\ faults' = faults + 1 /\ api[c].pc = "register"
        /\ avail' = avail + Cardinality(Placing(c))
        /\ hurt' = hurt \cup DOMAIN rows
        /\ api' = [api EXCEPT ![c] = NoRequest]
        /\ UNCHANGED <<ord, rowLock, kids, queues, market, app, pair, task, extremes, nextId, overrun>>

\* cancel one order, or the orders of the index (cancel_all; the children of
\* triggered stops are Exchange's orders).
CancelBegin(c, ids) ==
    /\ app.up /\ api[c].pc = "idle" /\ ids # {}
    /\ api' = [api EXCEPT ![c] = [NoRequest EXCEPT !.pc = "cancel", !.todo = ids]]
    /\ UNCHANGED <<pg, rowLock, queues, inbox, prints, app, pair, task, extremes, nextId, faults, hurt, overrun>>

\* The plain SELECT: an order that is not active is only reported.
CancelRead(c) ==
    LET id == Min(api[c].todo)
    IN  /\ api[c].pc = "cancel" /\ api[c].cur = 0 /\ api[c].todo # {}
        /\ api' = [api EXCEPT ![c].todo = @ \ {id}, ![c].cur = IF Active(ord[id]) THEN id ELSE 0]
        /\ UNCHANGED <<pg, rowLock, queues, inbox, prints, app, pair, task, extremes, nextId, faults, hurt, overrun>>

\* update_status(CANCELED), cancel_children: wait for the rows, look at nothing.
CancelUpdate(c) ==
    LET id == api[c].cur
        rows == {id} \cup {k \in Ids : ord[k].parent = id /\ Active(ord[k])}
    IN  /\ api[c].pc = "cancel" /\ id # 0 /\ id \notin api[c].done
        /\ \A k \in rows : rowLock[k] \in {NoOne, c}
        /\ rowLock' = [k \in Ids |-> IF k \in rows THEN c ELSE rowLock[k]]
        /\ api' = [api EXCEPT ![c].done = @ \cup rows]
        /\ overrun' = IF ord[id].status = "filled" THEN overrun \cup {id} ELSE overrun
        /\ UNCHANGED <<pg, queues, inbox, prints, app, pair, task, extremes, nextId, faults, hurt>>

\* remove_stop_order or remove_trailing_stop.
unregister(id, isTrailing) ==
    /\ stops' = IF isTrailing THEN stops ELSE {e \in stops : e.id # id}
    /\ trailing' = IF isTrailing THEN {e \in trailing : e.id # id} ELSE trailing

CancelRedis(c) ==
    LET id == api[c].cur
    IN  /\ api[c].pc = "cancel" /\ id # 0 /\ id \in api[c].done
        /\ unregister(id, ord[id].type = "trailing_stop")
        /\ index' = index \ {id}
        /\ api' = [api EXCEPT ![c].cur = 0]
        /\ UNCHANGED <<pg, rowLock, sent, inbox, prints, app, pair, task, extremes, nextId, faults, hurt, overrun>>

\* The commit, with the funds of the canceled orders that had locked some.
CancelCommit(c) ==
    LET free == {id \in api[c].done : ord[id].status = "new" /\ ~IsStop(ord[id])}
    IN  /\ api[c].pc = "cancel" /\ api[c].cur = 0 /\ api[c].todo = {}
        /\ ord' = [id \in Ids |-> IF id \in api[c].done THEN [ord[id] EXCEPT !.status = "canceled"] ELSE ord[id]]
        /\ avail' = avail + Cardinality(free)
        /\ rowLock' = Unlock(c)
        /\ api' = [api EXCEPT ![c] = NoRequest]
        /\ UNCHANGED <<kids, queues, market, app, pair, task, extremes, nextId, faults, hurt, overrun>>

CancelFails(c) ==
    /\ MayFail /\ faults' = faults + 1 /\ api[c].pc = "cancel"
    /\ hurt' = hurt \cup api[c].done \cup ({api[c].cur} \ {0})
    /\ rowLock' = Unlock(c)
    /\ api' = [api EXCEPT ![c] = NoRequest]
    /\ UNCHANGED <<pg, queues, inbox, prints, app, pair, task, extremes, nextId, overrun>>

-----------------------------------------------------------------------------
(* The market: trades of other orders, and the emulator's synthetic ones.  *)

\* publish_trade: a print with no subscriber is lost.  A real trade is also the
\* last price in PostgreSQL.
TradePrint(price, real) ==
    /\ prints < MaxPrints /\ pair /\ (real \/ (Emulator /\ app.up))
    /\ prints' = prints + 1
    /\ last' = IF real THEN price ELSE last
    /\ inbox' = IF task["prints"].pc \in {"down", "subscribe"} THEN inbox ELSE Append(inbox, price)
    /\ UNCHANGED <<ord, rowLock, avail, kids, queues, app, pair, task, extremes, api, nextId, faults, hurt, overrun>>

CancelHasRead(id) == \E c \in Clients : api[c].cur = id \/ id \in api[c].done

\* Mutant: children are sent whatever their status.
ActivateAlways(id) == {k \in Ids : ord[k].parent = id}

\* _activate_sltp_children: the pending children of the order.
activate_sltp_children(id) == {k \in Ids : ord[k].parent = id /\ ord[k].status = "pending"}

\* The worker fills a limit order (its races with a cancel are in Exchange).  A
\* taker's children are activated; a maker's are not.
ParentFills(id, taker) ==
    LET act == IF taker THEN activate_sltp_children(id) ELSE {}
    IN  /\ ord[id].status = "new" /\ ~IsStop(ord[id]) /\ ord[id].parent = 0
        /\ \A k \in {id} \cup act : rowLock[k] = NoOne /\ ~CancelHasRead(k)
        /\ ord' = [k \in Ids |-> IF k = id THEN [ord[k] EXCEPT !.status = "filled"]
                                 ELSE IF k \in act THEN [ord[k] EXCEPT !.status = "new"] ELSE ord[k]]
        /\ sent' = [k \in DOMAIN sent |-> IF k \in act THEN sent[k] + 1 ELSE sent[k]]
        /\ index' = index \ {id}
        /\ UNCHANGED <<rowLock, avail, kids, stops, trailing, market, app, pair, task, extremes, api, nextId, faults, hurt, overrun>>

-----------------------------------------------------------------------------
(* The monitor.                                                            *)

NoTask == [pc |-> "down", price |-> 0, todo |-> {}, cur |-> 0, seen |-> {}, trail |-> FALSE]

\* An administrator creates the pair.
CreatePair ==
    /\ ~pair /\ pair' = TRUE
    /\ UNCHANGED <<pg, rowLock, queues, inbox, prints, app, task, extremes, api, nextId, faults, hurt, overrun>>

Spawned == [t \in Tasks |-> [NoTask EXCEPT !.pc = IF t = "prints" THEN "subscribe" ELSE "list"]]

\* main.lifespan and start(): without an active pair the monitor is not started,
\* and then there is no periodic refresh either.
Start ==
    /\ ~app.up /\ app.starts + faults < MaxTrouble
    /\ app' = [up |-> TRUE, monitor |-> pair \/ OtherPairs, starts |-> app.starts + 1]
    /\ task' = IF pair THEN Spawned ELSE task
    /\ extremes' = [high |-> 0, low |-> 0] /\ inbox' = <<>>
    /\ UNCHANGED <<pg, rowLock, queues, prints, pair, api, nextId, faults, hurt, overrun>>

InFlight == {t \in Tasks : task[t].cur # 0}

\* stop(), or the process dies: the tasks and the requests end where they are,
\* their transactions are rolled back, prints that were not delivered are lost.
Stop ==
    /\ app.up
    /\ app' = [app EXCEPT !.up = FALSE, !.monitor = FALSE]
    /\ task' = [t \in Tasks |-> NoTask] /\ api' = [c \in Clients |-> NoRequest]
    /\ rowLock' = [id \in Ids |-> NoOne]
    /\ avail' = avail + Cardinality(InFlight) + Cardinality(UNION {Placing(c) : c \in Clients})
    /\ hurt' = hurt \cup {task[t].cur : t \in InFlight} \cup
                 UNION {DOMAIN api[c].rows \cup api[c].done : c \in Clients}
    /\ inbox' = <<>>
    /\ UNCHANGED <<ord, kids, last, queues, prints, pair, extremes, nextId, faults, overrun>>

\* pubsub.subscribe; a lost connection means the prints until then.
Subscribe ==
    /\ task["prints"].pc = "subscribe"
    /\ task' = [task EXCEPT !["prints"].pc = "listen"]
    /\ UNCHANGED <<pg, rowLock, queues, inbox, prints, app, pair, extremes, api, nextId, faults, hurt, overrun>>

ConnectionLost ==
    /\ MayFail /\ faults' = faults + 1 /\ task["prints"].pc = "listen"
    /\ task' = [task EXCEPT !["prints"].pc = "subscribe"]
    /\ inbox' = <<>>
    /\ UNCHANGED <<pg, rowLock, queues, prints, app, pair, extremes, api, nextId, hurt, overrun>>

\* _process_trade_print: the local extremes decide whether stops are trailed.
Receive ==
    LET price == Head(inbox)
        high == extremes.high = 0 \/ price > extremes.high
        low == extremes.low = 0 \/ price < extremes.low
    IN  /\ task["prints"].pc = "listen" /\ inbox # <<>>
        /\ inbox' = Tail(inbox)
        /\ extremes' = [high |-> IF high THEN price ELSE extremes.high, low |-> IF low THEN price ELSE extremes.low]
        /\ task' = [task EXCEPT !["prints"] = [NoTask EXCEPT !.price = price, !.pc = IF high \/ low THEN "load" ELSE "query"]]
        /\ UNCHANGED <<pg, rowLock, queues, prints, app, pair, api, nextId, faults, hurt, overrun>>

\* update_trailing_extremes: load the states, ...
TrailLoad ==
    /\ task["prints"].pc = "load"
    /\ task' = [task EXCEPT !["prints"].pc = IF trailing = {} THEN "query" ELSE "trail", !["prints"].seen = trailing]
    /\ UNCHANGED <<pg, rowLock, queues, inbox, prints, app, pair, extremes, api, nextId, faults, hurt, overrun>>

\* Mutant: the trigger follows the price whichever way it goes.
TrailsAlways(e, price) == e.side # "none"

\* A new high above a sell's extreme, a new low below a buy's.  (The print is a
\* new high or low of the monitor; the other bound is None and trails nothing.)
Trails(e, price) ==
    \/ e.side = "sell" /\ price = extremes.high /\ price > e.extreme
    \/ e.side = "buy" /\ price = extremes.low /\ price < e.extreme

Trailed(e, price) ==
    [e EXCEPT !.extreme = price, !.at = IF e.side = "sell" THEN price - e.delta ELSE price + e.delta]

\* ... then ZADD and HSET in one pipeline, which recreates an entry that was
\* removed meanwhile, without its side.
TrailStore ==
    LET t == task["prints"]
        moved == {e \in t.seen : Trails(e, t.price)}
        still == {e.id : e \in trailing}
    IN  /\ t.pc = "trail"
        /\ trailing' = {e \in trailing : \A m \in moved : m.id # e.id} \cup
                       {IF e.id \in still THEN Trailed(e, t.price)
                        ELSE [Trailed(e, t.price) EXCEPT !.side = "none", !.delta = 0] : e \in moved}
        /\ task' = [task EXCEPT !["prints"].pc = "query", !["prints"].seen = {}]
        /\ UNCHANGED <<pg, rowLock, stops, index, sent, inbox, prints, app, pair, extremes, api, nextId, faults, hurt, overrun>>

\* Mutant: one of the two queries is missing.
TriggeredBelow(price) == {e.id : e \in {s \in stops : s.at <= price}}

\* The two range queries.  Together they return every member.
get_all_triggered_stops(price) == {e.id : e \in {s \in stops : s.at <= price}} \cup
                                  {e.id : e \in {s \in stops : s.at >= price}}

get_triggered_trailing_stops(price) == {e.id : e \in {s \in trailing : s.at >= 0 /\ s.at <= price}} \cup
                                       {e.id : e \in {s \in trailing : s.at >= price}}

Query ==
    LET t == task["prints"]
    IN  /\ t.pc \in {"query", "query_trailing"}
        /\ task' = [task EXCEPT !["prints"].pc = "trigger", !["prints"].trail = (t.pc = "query_trailing"),
               !["prints"].todo = IF t.pc = "query" THEN get_all_triggered_stops(t.price)
                                  ELSE get_triggered_trailing_stops(t.price)]
        /\ UNCHANGED <<pg, rowLock, queues, inbox, prints, app, pair, extremes, api, nextId, faults, hurt, overrun>>

\* _rescan_pending_stops: pending rows of a stop type that the last price crosses,
\* SL/TP children included.
RescanList ==
    /\ task["rescan"].pc = "list"
    /\ task' = [task EXCEPT !["rescan"] = [NoTask EXCEPT !.pc = "trigger", !.price = last,
           !.todo = {id \in Ids : /\ last # 0 /\ ord[id].status = "pending" /\ IsStop(ord[id])
                                  /\ ord[id].stop # 0 /\ Crossed(ord[id], last)}]]
    /\ UNCHANGED <<pg, rowLock, queues, inbox, prints, app, pair, extremes, api, nextId, faults, hurt, overrun>>

\* Mutant: the row is not read again under its lock.
StillPendingUnchecked(id) == ord[id].status # "none"

\* What get_for_update has to find.
StillPending(id) == ord[id].status = "pending"

\* lock_optimistic finds the funds.
Fundable == avail > 0

\* A market buy also needs asks for its whole quantity.
NeedsAsks(o) == o.side = "buy" /\ o.type # "stop_limit"

\* Mutant: a stop that is skipped leaves its queue.
TriggerSkipRemoves(t) ==
    \E id \in task[t].todo :
        /\ task[t].pc = "trigger" /\ task[t].cur = 0 /\ rowLock[id] = NoOne
        /\ ~StillPending(id) \/ ~Fundable \/ NeedsAsks(ord[id])
        /\ unregister(id, task[t].trail)
        /\ task' = [task EXCEPT ![t].todo = @ \ {id}]
        /\ UNCHANGED <<pg, rowLock, index, sent, inbox, prints, app, pair, extremes, api, nextId, faults, hurt, overrun>>

\* _trigger_stop_order returns early: no such row, not pending, no asks, no funds.
TriggerSkip(t) ==
    \E id \in task[t].todo :
        /\ task[t].pc = "trigger" /\ task[t].cur = 0 /\ rowLock[id] = NoOne
        /\ ~StillPending(id) \/ ~Fundable \/ NeedsAsks(ord[id])
        /\ task' = [task EXCEPT ![t].todo = @ \ {id}]
        /\ UNCHANGED <<pg, rowLock, queues, inbox, prints, app, pair, extremes, api, nextId, faults, hurt, overrun>>

\* FOR UPDATE, the lock of the funds, the flush of the child.
TriggerLock(t) ==
    \E id \in task[t].todo :
        /\ task[t].pc = "trigger" /\ task[t].cur = 0 /\ rowLock[id] = NoOne
        /\ StillPending(id) /\ Fundable
        /\ rowLock' = [rowLock EXCEPT ![id] = t]
        /\ avail' = avail - 1
        /\ task' = [task EXCEPT ![t].todo = @ \ {id}, ![t].cur = id, ![t].pc = "enqueue"]
        /\ UNCHANGED <<ord, kids, queues, market, app, pair, extremes, api, nextId, faults, hurt, overrun>>

\* The child goes to the worker, the index and its HASH, before the commit.
TriggerEnqueue(t) ==
    LET id == task[t].cur
    IN  /\ task[t].pc = "enqueue"
        /\ sent' = [sent EXCEPT ![Child(id)] = @ + 1]
        /\ index' = index \cup {Child(id)}
        /\ task' = [task EXCEPT ![t].pc = "unregister"]
        /\ UNCHANGED <<pg, rowLock, stops, trailing, inbox, prints, app, pair, extremes, api, nextId, faults, hurt, overrun>>

TriggerUnregister(t) ==
    /\ task[t].pc = "unregister"
    /\ unregister(task[t].cur, task[t].trail)
    /\ task' = [task EXCEPT ![t].pc = "commit"]
    /\ UNCHANGED <<pg, rowLock, index, sent, inbox, prints, app, pair, extremes, api, nextId, faults, hurt, overrun>>

TriggerCommit(t) ==
    LET id == task[t].cur
    IN  /\ task[t].pc = "commit"
        /\ ord' = [ord EXCEPT ![id].status = "filled"]
        /\ kids' = [kids EXCEPT ![id] = @ + 1]
        /\ rowLock' = Unlock(t)
        /\ task' = [task EXCEPT ![t].pc = "trigger", ![t].cur = 0]
        /\ UNCHANGED <<avail, queues, market, app, pair, extremes, api, nextId, faults, hurt, overrun>>

\* An exception: session.begin() rolls back, the caller logs and goes on.
TriggerFails(t) ==
    /\ MayFail /\ faults' = faults + 1 /\ task[t].cur # 0
    /\ avail' = avail + 1
    /\ hurt' = hurt \cup {task[t].cur}
    /\ rowLock' = Unlock(t)
    /\ task' = [task EXCEPT ![t].pc = "trigger", ![t].cur = 0]
    /\ UNCHANGED <<ord, kids, queues, market, app, pair, extremes, api, nextId, overrun>>

\* The list is done: trailing stops after plain ones, then the next print.
TriggersDone(t) ==
    /\ task[t].pc = "trigger" /\ task[t].cur = 0 /\ task[t].todo = {}
    /\ task' = [task EXCEPT ![t] = IF t = "rescan" THEN NoTask
                                   ELSE IF task[t].trail THEN [NoTask EXCEPT !.pc = "listen"]
                                   ELSE [task[t] EXCEPT !.pc = "query_trailing"]]
    /\ UNCHANGED <<pg, rowLock, queues, inbox, prints, app, pair, extremes, api, nextId, faults, hurt, overrun>>

\* Mutant, and the edition in frontend/backend: no refresh.
RefreshNever == FALSE /\ UNCHANGED vars

\* _periodic_refresh: a pair created after the start is monitored too.
Refresh ==
    /\ app.monitor /\ pair /\ task["prints"].pc = "down"
    /\ task' = Spawned
    /\ UNCHANGED <<pg, rowLock, queues, inbox, prints, app, pair, extremes, api, nextId, faults, hurt, overrun>>

-----------------------------------------------------------------------------
Init ==
    /\ ord = [id \in Ids |-> NoOrder] /\ rowLock = [id \in Ids |-> NoOne]
    /\ avail = Funds /\ kids = [id \in Ids |-> 0] /\ last = 0
    /\ stops = {} /\ trailing = {} /\ index = {}
    /\ sent = [id \in 1 .. 2 * MaxOrders |-> 0]
    /\ inbox = <<>> /\ prints = 0 /\ pair \in BOOLEAN
    /\ app = [up |-> FALSE, monitor |-> FALSE, starts |-> 0]
    /\ task = [t \in Tasks |-> NoTask] /\ extremes = [high |-> 0, low |-> 0]
    /\ api = [c \in Clients |-> NoRequest] /\ nextId = 1
    /\ faults = 0 /\ hurt = {} /\ overrun = {}

Place(c) == \E b \in Batches : PlaceBegin(c, b)
Cancel(c) == \/ \E id \in Ids : ord[id].status # "none" /\ CancelBegin(c, {id})
             \/ CancelBegin(c, index \cap Ids)

\* A request that has begun goes on.
RequestStep(c) ==
    \/ PlaceRegister(c) \/ PlaceCommit(c)
    \/ CancelRead(c) \/ CancelUpdate(c) \/ CancelRedis(c) \/ CancelCommit(c)

\* The prints task outside a trigger, and a trigger of either task.
TriggerStep(t) ==
    \/ TriggerSkip(t) \/ TriggerLock(t) \/ TriggerEnqueue(t) \/ TriggerUnregister(t)
    \/ TriggerCommit(t) \/ TriggersDone(t)
PrintStep == Subscribe \/ Receive \/ TrailLoad \/ TrailStore \/ Query
RescanStep == RescanList

Next ==
    \/ \E c \in Clients : \/ Place(c) \/ Cancel(c) \/ RequestStep(c)
                          \/ PlaceFails(c) \/ CancelFails(c)
    \/ \E price \in Prices, real \in BOOLEAN : TradePrint(price, real)
    \/ \E id \in Ids, taker \in BOOLEAN : ParentFills(id, taker)
    \/ CreatePair \/ Start \/ Stop \/ Refresh \/ ConnectionLost
    \/ PrintStep \/ RescanStep
    \/ \E t \in Tasks : TriggerStep(t) \/ TriggerFails(t)

Spec == Init /\ [][Next]_vars

\* The event loop runs the monitor's tasks and the requests it has accepted; the
\* refresh wakes up every 30 s.  Nobody has to trade, cancel, or restart.
FairSpec ==
    /\ Spec
    /\ WF_vars(PrintStep \/ TriggerStep("prints")) /\ WF_vars(RescanStep \/ TriggerStep("rescan"))
    /\ WF_vars(Refresh)
    /\ \A c \in Clients : WF_vars(RequestStep(c))

-----------------------------------------------------------------------------
(* Properties.                                                             *)

\* Every variable has the shape the code gives it.
TypeOK ==
    /\ \A id \in Ids : /\ ord[id].status \in {"none", "pending", "new", "filled", "canceled"}
                        /\ ord[id].parent \in {0} \cup Ids /\ rowLock[id] \in {NoOne} \cup Clients \cup Tasks
    /\ avail \in 0 .. Funds /\ nextId \in 1 .. MaxOrders + 1
    /\ \A e \in stops \cup trailing : e.id \in Ids /\ e.at \in Int
    /\ index \subseteq 1 .. 2 * MaxOrders /\ hurt \subseteq Ids /\ overrun \subseteq Ids
    /\ \A t \in Tasks : task[t].todo \subseteq Ids /\ task[t].cur \in {0} \cup Ids
    /\ \A c \in Clients : api[c].todo \subseteq Ids /\ api[c].cur \in {0} \cup Ids

\* A stop turns into exactly one child order when it is marked FILLED, whatever
\* prints, rescans, cancels and failures meet; it ends CANCELED with a child only
\* when the cancel had read it before the trigger committed.  All state keeps
\* its type.
OneChildPerStop ==
    /\ TypeOK
    /\ \A id \in Ids : IsStop(ord[id]) =>
        /\ kids[id] <= 1
        /\ ord[id].status = "filled" => kids[id] = 1
        /\ kids[id] = 1 => ord[id].status = "filled" \/ (ord[id].status = "canceled" /\ id \in overrun)

Count(S) == Cardinality(S)

\* The locked funds are those of the limit orders placed and not canceled and of
\* the children of triggered stops, each once: failed and skipped triggers, bulk
\* requests that are rolled back and bulk cancels leave nothing behind.
FundsExact ==
    Funds = avail + Count({id \in Ids : ~IsStop(ord[id]) /\ ord[id].status \in {"new", "filled"}})
            + SumFunction(kids) + Count(InFlight) + Count(UNION {Placing(c) : c \in Clients})

\* A pending stop of a user is in its Redis queue and in the open-orders index,
\* except while its trigger or its cancel is about to commit and after a
\* transaction on it failed half-way (only a restart's rescan finds it then).
NoStopForgotten ==
    \A id \in Ids \ hurt :
        LET o == ord[id]
        IN  o.status = "pending" /\ o.parent = 0 =>
            \/ id \in index /\ \E e \in (IF o.type = "trailing_stop" THEN trailing ELSE stops) : e.id = id
            \/ \E t \in Tasks : task[t].cur = id /\ task[t].pc = "commit"
            \/ \E c \in Clients : id \in api[c].done

\* An SL/TP child acts once: either it is sent to the worker when its parent fills
\* as a taker, or a rescan triggers it, never both.
SltpActsOnce ==
    \A id \in Ids : ord[id].parent # 0 => sent[id] + kids[id] <= 1

\* Once a trailing stop follows the market its trigger only moves the way that
\* protects the position: up for a sell, down for a buy.
TrailingRatchet ==
    [][\A e \in trailing, f \in trailing' : e.id = f.id =>
          /\ e.side = "sell" /\ e.at = e.extreme - e.delta => f.at >= e.at
          /\ e.side = "buy" /\ e.at = e.extreme + e.delta => f.at <= e.at]_vars

\* A registered stop that a print has crossed, or that the last price has crossed
\* when the application starts, is triggered or canceled, unless it lacks
\* funds or asks, something fails or the market has turned before it is read.
Waiting(id) == ord[id].status = "pending" /\ ~NeedsAsks(ord[id])
Resolved(id) == ord[id].status # "pending" \/ avail = 0 \/ id \in hurt \/ ~app.up
DueStopsResolved ==
    \A id \in Ids :
        /\ (/\ Waiting(id) /\ task["prints"].pc = "query" /\ \E e \in stops : e.id = id
            /\ Crossed(ord[id], task["prints"].price)) ~> Resolved(id)
        /\ (Waiting(id) /\ task["rescan"].pc = "list" /\ last # 0 /\ ord[id].stop # 0 /\ Crossed(ord[id], last))
               ~> (Resolved(id) \/ ~Crossed(ord[id], last))

\* A pair that is created while the monitor runs is listened to.
NewPairMonitored ==
    (app.monitor /\ pair) ~> (~app.monitor \/ task["prints"].pc \notin {"down", "subscribe"})

\* What the docstrings of get_triggered_sell_stops and get_triggered_buy_stops
\* promise: a stop fires on a print that has reached its stop price.
FiresInDirection ==
    \A t \in Tasks :
        LET o == ord[task[t].cur]
        IN  task[t].pc = "enqueue" /\ o.type # "trailing_stop" => Crossed(o, task[t].price)
=============================================================================
