------------------------------ MODULE Exchange ------------------------------
(***************************************************************************)
(* One trading pair from the API to settlement: order_service (place,      *)
(* cancel, modify), the Redis queue, book and order hashes, the matching   *)
(* worker and trade_service.                                               *)
(*                                                                         *)
(* PostgreSQL is READ COMMITTED.  bal, orders and trades are what has been *)
(* committed; balLock and ordLock are the row locks; what a transaction    *)
(* has written so far is kept with its actor (client[c], worker) and       *)
(* applied when it commits.  Redis commands take effect at once and no     *)
(* rollback undoes them.  An action ends where the code awaits something   *)
(* that another actor can disturb.                                         *)
(*                                                                         *)
(* Balances move as in BalanceService.  The engine call is the closed form *)
(* MatchingEngine is checked against (PriceTime).  Prices are multiples of *)
(* 1000 so that the 0.1% buffer of a market buy is exact.                  *)
(*                                                                         *)
(* The repository holds the backend twice.  The older copy, under          *)
(* frontend/backend/, differs in what a market buy locks, how a cancel     *)
(* unlocks, the HASH of a partly filled maker and who is refunded.         *)
(***************************************************************************)
EXTENDS PriceTime, FiniteSets

CONSTANTS
    Users,          \* account holders
    Clients,        \* API requests in progress at the same time
    NoOne,          \* "the row is free", and the user of no order
    Worker,         \* the matching worker, as the holder of a row
    Start,          \* existing balance rows <<user, asset>> and what is available
    Menu,           \* orders users may ask for: [user, side, type, price, qty]
    Pair,           \* the trading pair's rules: [min_lot_size, max_lot_size, tick_size]
    MaxOrders,      \* bound: orders placed, replacements included
    MaxQueue,       \* bound: no request begins while more messages wait
    Replacements,   \* new terms users may ask for: [price, qty]
    MayCancel,      \* do users cancel?
    Faults,         \* may requests and the worker die half-way?
    Editions        \* which of the two copies of the backend run

ASSUME ExchangeAssumption ==
    /\ NoOne \notin Users \cup Clients /\ Worker \notin Clients \cup {NoOne}
    /\ MaxOrders \in Nat /\ MaxQueue \in Nat /\ MayCancel \in BOOLEAN /\ Faults \in BOOLEAN
    /\ Editions \subseteq {"current", "older"} /\ Editions # {}
    /\ Start \in [DOMAIN Start -> Nat] /\ DOMAIN Start \subseteq Users \X {"base", "quote"}
    /\ Menu \subseteq [user : Users, side : {"buy", "sell"}, price : Nat, qty : Nat \ {0},
                       type : {"limit", "market", "ioc", "fok", "post_only"}]
    /\ Replacements \subseteq [price : Nat \ {0}, qty : Nat \ {0}]
    /\ \A m \in Menu \cup Replacements : m.price % 1000 = 0
    /\ NoOne \notin [user : Users, side : {"buy", "sell"}, price : Nat]

Ids == 1 .. MaxOrders
Rows == DOMAIN Start
Actors == Clients \cup {Worker}

VARIABLES
    bal,        \* committed balances rows: [locked, available]
    orders,     \* committed order rows; status "none" before the commit
    trades,     \* committed trade rows
    balLock,    \* holder of each balance row
    ordLock,    \* holder of each order row
    client,     \* the request each API handler is serving
    nextId,     \* the orders table's id sequence
    queue,      \* queue:orders, oldest first
    book,       \* the two ZSETs: [id, side, price, seq]
    hash,       \* quantity field of each order HASH, 0 when there is no HASH
    seq,        \* seq:orders:{symbol}
    worker,     \* the matching worker
    dropped,    \* orders that a request or the worker failed half-way through
    edition     \* "current" (backend/) or "older" (frontend/backend/)

redis == <<queue, book, hash, seq>>
pg == <<bal, orders, trades>>
vars == <<pg, balLock, ordLock, client, nextId, redis, worker, dropped, edition>>

-----------------------------------------------------------------------------
(* Orders and the funds they reserve.                                      *)

Active == {"new", "partially_filled"}
Statuses == Active \cup {"none", "filled", "canceled"}

PayAsset(side) == IF side = "buy" THEN "quote" ELSE "base"
GetAsset(side) == IF side = "buy" THEN "base" ELSE "quote"
PayRow(o) == <<o.user, PayAsset(o.side)>>
GetRow(o) == <<o.user, GetAsset(o.side)>>

Remaining(o) == o.qty - o.filled

\* What a fill of (qty, quote) takes from the order's locked funds, and gives.
Cost(o, qty, quote) == IF o.side = "buy" THEN quote ELSE qty
Gain(o, qty, quote) == IF o.side = "buy" THEN qty ELSE quote

\* _compute_lock_asset_and_amount, and the amount cancel and modify unlock.  A
\* market order has no price: a canceled market buy unlocks nothing.
LimitReserve(o, qty) == Cost(o, qty, o.price * qty)

NoOrder == [user |-> NoOne, side |-> "buy", type |-> "limit", price |-> NoPrice,
            qty |-> 0, filled |-> 0, status |-> "none"]

\* ZRANGE of the asks, ZREVRANGE of the bids.
Before(side, a, b) ==
    \/ Better(side, a.price, b.price)
    \/ a.price = b.price /\ IF side = "sell" THEN a.seq < b.seq ELSE a.seq > b.seq

\* get_opposite_orders_for_match, entries without a HASH skipped.
OppositeOrders(side) ==
    LET opp == {e \in book : e.side = Opposite(side) /\ hash[e.id] > 0}
        makers == {[id |-> e.id, price |-> e.price, seq |-> e.seq, qty |-> hash[e.id]] : e \in opp}
    IN  CHOOSE s \in [1 .. Cardinality(makers) -> makers] :
            \A i, j \in DOMAIN s : i < j => Before(Opposite(side), s[i], s[j])

\* _compute_market_buy_lock: walk the asks, add the 0.1% buffer; 0 when they do
\* not cover the quantity (OrderValidationError).
MarketBuyLock(qty) ==
    LET asks == OppositeOrders("buy")
        take == Fills(asks, qty)
    IN  IF Volume(asks) < qty THEN 0
        ELSE (SumFunction([i \in DOMAIN asks |-> asks[i].price * take[i]]) * 1001) \div 1000

\* get_best_ask: the first entry of the asks, with or without a HASH; the
\* older _compute_market_buy_lock takes 1% more than that for every unit.
BestAsks == {e \in book : e.side = "sell" /\ \A f \in book : f.side = "sell" => e.price <= f.price}
BestAskLock(qty) ==
    IF BestAsks = {} THEN 0 ELSE ((CHOOSE e \in BestAsks : TRUE).price * 101 * qty) \div 100

PlaceReserve(m) ==
    IF m.type = "market" /\ m.side = "buy"
    THEN IF edition = "older" THEN BestAskLock(m.qty) ELSE MarketBuyLock(m.qty)
    ELSE LimitReserve(m, m.qty)

Message(kind, id, o) == [kind |-> kind, id |-> id, user |-> o.user, side |-> o.side,
                         type |-> o.type, price |-> o.price, qty |-> o.qty]

\* Mutant: the amount is locked and stays available.
ShiftKeepsAvailable(b, amt) == [locked |-> b.locked + amt, available |-> b.available]

\* Move amt from available to locked, or back.
Shift(b, amt) == [locked |-> b.locked + amt, available |-> b.available - amt]

-----------------------------------------------------------------------------
(* API requests.  client[c] is the request's transaction: old the order it *)
(* cancels or replaces, new and draft the one it inserts, want the amount  *)
(* it means to unlock, shift what it moves from available to locked.       *)

NoRequest == [pc |-> "idle", old |-> 0, new |-> 0, draft |-> NoOrder, want |-> 0, shift |-> 0]

Modifying(c) == client[c].pc \in {"modify_lock", "modify_redis", "modify_commit"}

\* The worker's INSERT of trades has taken FOR KEY SHARE on these orders.
KeyShared(id) ==
    /\ worker.pc \in {"orders", "pay", "get", "settle", "commit"}
    /\ \E k \in DOMAIN worker.fills : worker.fills[k].id = id

RequestRow(c) == PayRow(IF client[c].old # 0 THEN orders[client[c].old] ELSE client[c].draft)

Free(lock, x) == [k \in DOMAIN lock |-> IF lock[k] = x THEN NoOne ELSE lock[k]]
ReleaseRows(x) == balLock' = Free(balLock, x) /\ ordLock' = Free(ordLock, x)

\* Mutant: the balance is not looked at.
AffordableUnchecked(row, amt) == amt > 0

\* The lock of a positive amount that the row has available.
Affordable(row, amt) == amt > 0 /\ bal[row].available >= amt

\* _validate_params: the lot, a price where the type needs one, the tick.
validate_params(m) ==
    /\ m.qty >= Pair.min_lot_size /\ m.qty <= Pair.max_lot_size
    /\ m.type # "market" => m.price # NoPrice
    /\ m.price # NoPrice => m.price % Pair.tick_size = 0

\* place_order up to the INSERT of the order: validation, the amount, the
\* optimistic lock of the balance row and the flush that draws the id.
PlaceLock(c, m) ==
    LET amt == PlaceReserve(m)
    IN  /\ client[c].pc = "idle" /\ nextId \in Ids
        /\ validate_params(m)
        /\ PayRow(m) \in Rows /\ balLock[PayRow(m)] = NoOne
        /\ Affordable(PayRow(m), amt)
        /\ balLock' = [balLock EXCEPT ![PayRow(m)] = c]
        /\ client' = [client EXCEPT ![c] =
               [NoRequest EXCEPT !.pc = "place_enqueue", !.new = nextId, !.shift = amt,
                   !.draft = [user |-> m.user, side |-> m.side, type |-> m.type, price |-> m.price,
                              qty |-> m.qty, filled |-> 0, status |-> "new"]]]
        /\ nextId' = nextId + 1
        /\ UNCHANGED <<pg, ordLock, redis, worker, dropped>>

\* enqueue_order_action, before the transaction commits.
PlaceEnqueue(c) ==
    /\ client[c].pc = "place_enqueue"
    /\ queue' = Append(queue, Message("place", client[c].new, client[c].draft))
    /\ client' = [client EXCEPT ![c].pc = "place_hash"]
    /\ UNCHANGED <<pg, balLock, ordLock, nextId, book, hash, seq, worker, dropped>>

\* store_order_hash, after the worker may already have matched the order.
PlaceHash(c) ==
    /\ client[c].pc = "place_hash"
    /\ hash' = [hash EXCEPT ![client[c].new] = client[c].draft.qty]
    /\ client' = [client EXCEPT ![c].pc = "place_commit"]
    /\ UNCHANGED <<pg, balLock, ordLock, nextId, queue, book, seq, worker, dropped>>

\* cancel_order's plain SELECT of the order, is_active and the unlock amount.
CancelRead(c, id) ==
    LET o == orders[id]
        want == LimitReserve(o, Remaining(o))
    IN  /\ MayCancel
        /\ client[c].pc = "idle" /\ o.status \in Active
        /\ client' = [client EXCEPT ![c] = [NoRequest EXCEPT !.old = id, !.want = want,
                          !.pc = IF want > 0 THEN "cancel_lock" ELSE "cancel_update"]]
        /\ UNCHANGED <<pg, balLock, ordLock, nextId, redis, worker, dropped>>

\* get_for_update of the balance and unlock_pessimistic of
\* min(unlock_amount, locked_balance).
CancelLock(c) ==
    LET row == RequestRow(c)
    IN  /\ client[c].pc = "cancel_lock" /\ balLock[row] = NoOne /\ edition = "current"
        /\ balLock' = [balLock EXCEPT ![row] = c]
        /\ client' = [client EXCEPT ![c].pc = "cancel_update",
                                    ![c].shift = -Min({client[c].want, bal[row].locked})]
        /\ UNCHANGED <<pg, ordLock, nextId, redis, worker, dropped>>

\* The older cancel: unlock_optimistic of the amount it computed, or an error
\* when less is locked.
CancelUnlock(c) ==
    LET row == RequestRow(c)
    IN  /\ client[c].pc = "cancel_lock" /\ balLock[row] = NoOne /\ edition = "older"
        /\ \/ /\ bal[row].locked >= client[c].want
              /\ balLock' = [balLock EXCEPT ![row] = c]
              /\ client' = [client EXCEPT ![c].pc = "cancel_update", ![c].shift = -client[c].want]
              /\ UNCHANGED ordLock
           \/ /\ bal[row].locked < client[c].want
              /\ client' = [client EXCEPT ![c] = NoRequest]
              /\ ReleaseRows(c)
        /\ UNCHANGED <<pg, nextId, redis, worker, dropped>>

\* update_status(CANCELED): waits for the order row, does not look at it.
CancelUpdate(c) ==
    /\ client[c].pc = "cancel_update" /\ ordLock[client[c].old] = NoOne
    /\ ordLock' = [ordLock EXCEPT ![client[c].old] = c]
    /\ client' = [client EXCEPT ![c].pc = "cancel_redis"]
    /\ UNCHANGED <<pg, balLock, nextId, redis, worker, dropped>>

RemoveFromBook(id) == book' = {e \in book : e.id # id}

\* ZREM, DEL of the HASH, and the cancel message.
CancelRedis(c) ==
    LET id == client[c].old
    IN  /\ client[c].pc = "cancel_redis"
        /\ RemoveFromBook(id)
        /\ hash' = [hash EXCEPT ![id] = 0]
        /\ queue' = Append(queue, Message("cancel", id, orders[id]))
        /\ client' = [client EXCEPT ![c].pc = "cancel_commit"]
        /\ UNCHANGED <<pg, balLock, ordLock, nextId, seq, worker, dropped>>

\* modify_order: the old order FOR UPDATE and the checks on it.  (The id of the
\* new order is set aside here, so that the bound never stops a request half-way.)
ModifyBegin(c, id, terms) ==
    LET o == orders[id]
    IN  /\ client[c].pc = "idle" /\ nextId \in Ids
        /\ ordLock[id] = NoOne /\ ~KeyShared(id)
        /\ o.status \in Active /\ o.type \in {"limit", "post_only"}
        /\ ordLock' = [ordLock EXCEPT ![id] = c]
        /\ client' = [client EXCEPT ![c] = [NoRequest EXCEPT !.pc = "modify_lock", !.old = id,
               !.new = nextId, !.draft = [o EXCEPT !.price = terms.price, !.qty = terms.qty,
                                   !.filled = 0, !.status = "new"]]]
        /\ nextId' = nextId + 1
        /\ UNCHANGED <<pg, balLock, redis, worker, dropped>>

\* unlock_optimistic of the old reservation, lock_optimistic of the new one,
\* update_status of the old order and INSERT of the new; the request fails when
\* either amount is not there.
ModifyLock(c) ==
    LET row == RequestRow(c)
        o == orders[client[c].old]
        unlock == LimitReserve(o, Remaining(o))
        lock == LimitReserve(client[c].draft, client[c].draft.qty)
    IN  /\ client[c].pc = "modify_lock" /\ balLock[row] = NoOne
        /\ \/ /\ bal[row].locked >= unlock /\ bal[row].available + unlock >= lock
              /\ balLock' = [balLock EXCEPT ![row] = c]
              /\ client' = [client EXCEPT ![c].pc = "modify_redis", ![c].shift = lock - unlock]
              /\ UNCHANGED ordLock
           \/ /\ ~(bal[row].locked >= unlock /\ bal[row].available + unlock >= lock)
              /\ client' = [client EXCEPT ![c] = NoRequest]
              /\ ReleaseRows(c)
        /\ UNCHANGED <<pg, nextId, redis, worker, dropped>>

\* The old order leaves the book, the new one gets its HASH and its message.
ModifyRedis(c) ==
    LET t == client[c]
    IN  /\ t.pc = "modify_redis"
        /\ RemoveFromBook(t.old)
        /\ hash' = [hash EXCEPT ![t.old] = 0, ![t.new] = t.draft.qty]
        /\ queue' = Append(queue, Message("modify", t.new, t.draft))
        /\ client' = [client EXCEPT ![c].pc = "modify_commit"]
        /\ UNCHANGED <<pg, balLock, ordLock, nextId, seq, worker, dropped>>

\* The API handler commits the request's transaction.
RequestCommit(c) ==
    LET t == client[c]
    IN  /\ t.pc \in {"place_commit", "cancel_commit", "modify_commit"}
        /\ bal' = IF t.shift = 0 THEN bal ELSE [bal EXCEPT ![RequestRow(c)] = Shift(@, t.shift)]
        /\ orders' = [id \in Ids |-> IF id = t.new THEN t.draft
                                     ELSE IF id = t.old THEN [orders[id] EXCEPT !.status = "canceled"]
                                     ELSE orders[id]]
        /\ client' = [client EXCEPT ![c] = NoRequest]
        /\ ReleaseRows(c)
        /\ UNCHANGED <<trades, nextId, redis, worker, dropped>>

RequestRollback(c) ==
    /\ client' = [client EXCEPT ![c] = NoRequest]
    /\ dropped' = dropped \cup ({client[c].old, client[c].new} \ {0})
    /\ ReleaseRows(c)
    /\ UNCHANGED <<pg, nextId, redis, worker>>

\* The process dies, Redis or PostgreSQL refuses a command, COMMIT fails.
RequestDies(c) == Faults /\ client[c].pc # "idle" /\ RequestRollback(c)

-----------------------------------------------------------------------------
(* The matching worker.  fills are the parties to settle, makers first and *)
(* the taker last; k is the party at hand; acc is what the transaction has *)
(* changed in the balances it holds; left is the taker's remainder.        *)

Untouched == [r \in Rows |-> [locked |-> 0, available |-> 0]]

IdleWorker == [pc |-> "idle", msg |-> Message("none", 0, NoOrder), fills |-> <<>>,
               k |-> 0, acc |-> Untouched, left |-> 0]

\* BRPOP and the dispatch: _handle_cancel and _handle_modify do nothing.
WorkerPop ==
    /\ worker.pc = "idle" /\ queue # <<>>
    /\ queue' = Tail(queue)
    /\ worker' = IF Head(queue).kind = "place"
                 THEN [IdleWorker EXCEPT !.pc = "match", !.msg = Head(queue)] ELSE worker
    /\ UNCHANGED <<pg, balLock, ordLock, client, nextId, book, hash, seq, dropped>>

\* Mutants: a buyer is refunded before the remainder rests; a limit order's
\* remainder is dropped.
AfterTradesRefundFirst(msg, left) ==
    IF msg.side = "buy" THEN "refund" ELSE IF left > 0 THEN "rest_hash" ELSE "idle"
AfterTradesNoRest(msg, left) ==
    IF left > 0 /\ msg.type = "post_only" THEN "rest_hash" ELSE "idle"

\* Whom the worker refunds: a market buy, and a limit buy that is filled; in
\* the older edition only the first.
Refunded(msg, left) ==
    msg.side = "buy" /\ (msg.type = "market" \/ (left = 0 /\ msg.type = "limit"))
RefundedOlder(msg, left) == msg.side = "buy" /\ msg.type = "market"

\* Step 7 of _handle_place: rest, refund or nothing.
AfterTrades(msg, left) ==
    IF left > 0 /\ msg.type \in {"limit", "post_only"} THEN "rest_hash"
    ELSE IF IF edition = "older" THEN RefundedOlder(msg, left) ELSE Refunded(msg, left)
    THEN "refund" ELSE "idle"

WorkerGoto(pc, w) == worker' = IF pc = "idle" THEN IdleWorker ELSE [w EXCEPT !.pc = pc]

\* Mutant: the engine ignores the taker's limit.
TradableAtAnyPrice(msg) == OppositeOrders(msg.side)

\* The makers the engine may match the order with.
Tradable(msg) == Reachable(OppositeOrders(msg.side), msg.side, msg.price)

\* Post-Only that would trade, FOK that is not covered, nothing to take.
Rejected(msg, reach) ==
    \/ msg.type = "post_only" /\ reach # <<>>
    \/ msg.type = "fok" /\ Volume(reach) < msg.qty
    \/ msg.type \in {"market", "ioc"} /\ reach = <<>>

\* The engine's trades: what each maker gives, until the taker has enough.
MakerFills(reach, want) ==
    LET give == Fills(reach, want)
    IN  Leading([i \in DOMAIN reach |-> [id |-> reach[i].id, price |-> reach[i].price,
                                         qty |-> give[i], quote |-> reach[i].price * give[i]]],
                {i \in DOMAIN reach : give[i] > 0})

\* The taker's side of all these trades.
TakerFill(id, makers) ==
    [id |-> id, price |-> NoPrice, qty |-> SumFunction([i \in DOMAIN makers |-> makers[i].qty]),
     quote |-> SumFunction([i \in DOMAIN makers |-> makers[i].quote])]

\* Load the makers from Redis and call the engine.  A rejected taker is only
\* announced; a match without trades skips the settlement.
WorkerMatch ==
    /\ worker.pc = "match"
    /\ \E reach \in {Tradable(worker.msg)} : \E makers \in {MakerFills(reach, worker.msg.qty)} :
           LET msg == worker.msg
               taker == TakerFill(msg.id, makers)
               left == msg.qty - taker.qty
           IN  \/ Rejected(msg, reach) /\ WorkerGoto("idle", worker)
               \/ /\ ~Rejected(msg, reach) /\ makers = <<>>
                  /\ WorkerGoto(AfterTrades(msg, left), [worker EXCEPT !.left = left])
               \/ /\ ~Rejected(msg, reach) /\ makers # <<>>
                  /\ WorkerGoto("users", [worker EXCEPT !.left = left, !.fills = Append(makers, taker)])
    /\ UNCHANGED <<pg, balLock, ordLock, client, nextId, redis, dropped>>

Party == worker.fills[worker.k]
IsMaker == worker.k < Len(worker.fills)
PartyOrder == orders[Party.id]

\* Mutants: a failed message is queued again; the transaction is not rolled back.
WorkerFailsRequeues ==
    /\ worker' = IdleWorker
    /\ queue' = Append(queue, worker.msg)
    /\ ReleaseRows(Worker)
    /\ UNCHANGED <<pg, client, nextId, book, hash, seq, dropped>>
WorkerFailsHolding ==
    /\ worker' = IdleWorker
    /\ dropped' = dropped \cup {worker.msg.id}
    /\ UNCHANGED <<pg, balLock, ordLock, client, nextId, redis>>

\* The exception handler of the main loop: rollback and dead-letter list.
WorkerFails ==
    /\ worker' = IdleWorker
    /\ dropped' = dropped \cup {worker.msg.id}
    /\ ReleaseRows(Worker)
    /\ UNCHANGED <<pg, client, nextId, redis>>

\* The makers' user ids are read from their HASHes.  A maker without one gets
\* user 0, whom the INSERT's foreign key will refuse: the transaction is lost.
WorkerUsers ==
    LET makers == Front(worker.fills)
        found == \A k \in DOMAIN makers : hash[makers[k].id] > 0
    IN  /\ worker.pc = "users"
        /\ \/ ~found /\ WorkerFails
           \/ /\ found /\ WorkerGoto("flush", worker)
              /\ UNCHANGED <<pg, balLock, ordLock, client, nextId, redis, dropped>>

\* The INSERT of the trades: the foreign keys demand that both orders are
\* committed, and wait for a transaction that has one of them FOR UPDATE.
WorkerFlush ==
    LET parties == worker.fills
        keysExist == \A k \in DOMAIN parties : orders[parties[k].id].status # "none"
    IN  /\ worker.pc = "flush"
        /\ \/ ~keysExist /\ WorkerFails
           \/ /\ keysExist
              /\ \A c \in Clients : Modifying(c) =>
                     \A k \in DOMAIN parties : parties[k].id # client[c].old
              /\ worker' = [worker EXCEPT !.pc = "orders", !.k = 1]
              /\ UNCHANGED <<pg, balLock, ordLock, client, nextId, redis, dropped>>

\* get_for_update of each maker order, then of the taker order.
WorkerLockOrder ==
    /\ worker.pc = "orders" /\ ordLock[Party.id] = NoOne
    /\ ordLock' = [ordLock EXCEPT ![Party.id] = Worker]
    /\ worker' = IF IsMaker THEN [worker EXCEPT !.k = @ + 1] ELSE [worker EXCEPT !.pc = "pay", !.k = 1]
    /\ UNCHANGED <<pg, balLock, client, nextId, redis, dropped>>

WantedRow == IF worker.pc = "pay" THEN PayRow(PartyOrder) ELSE GetRow(PartyOrder)

\* get_for_update of the party's two balances; a missing row is skipped.
WorkerLockBalance ==
    /\ worker.pc \in {"pay", "get"}
    /\ \/ WantedRow \notin Rows /\ UNCHANGED balLock
       \/ /\ WantedRow \in Rows
          /\ balLock[WantedRow] \in {NoOne, Worker}
          /\ balLock' = [balLock EXCEPT ![WantedRow] = Worker]
    /\ worker' = [worker EXCEPT !.pc = IF @ = "pay" THEN "get" ELSE "settle"]
    /\ UNCHANGED <<pg, ordLock, client, nextId, redis, dropped>>

\* Mutant: the book keeps the maker as it was.
update_redis_nothing(id, rest) == UNCHANGED <<book, hash>>

\* _update_redis_maker: a filled maker leaves the book, another one's HASH gets
\* the remainder.
update_redis_maker(id, rest) ==
    \/ rest <= 0 /\ RemoveFromBook(id) /\ hash' = [hash EXCEPT ![id] = 0]
    \/ rest > 0 /\ hash' = [hash EXCEPT ![id] = rest] /\ UNCHANGED book

\* The older one leaves the quantity in the HASH as it was.
update_redis_maker_older(id, rest) ==
    \/ rest <= 0 /\ RemoveFromBook(id) /\ hash' = [hash EXCEPT ![id] = 0]
    \/ rest > 0 /\ UNCHANGED <<book, hash>>

\* settle_pessimistic on the paid asset (ValueError when it is not locked) and
\* credit_pessimistic on the received one, then _update_redis_maker.
WorkerSettle ==
    LET p == Party
        o == PartyOrder
        cost == Cost(o, p.qty, p.quote)
        gain == Gain(o, p.qty, p.quote)
        covered == PayRow(o) \in Rows =>
                       bal[PayRow(o)].locked + worker.acc[PayRow(o)].locked >= cost
        rest == o.qty - (o.filled + p.qty)
    IN  /\ worker.pc = "settle"
        /\ \/ ~covered /\ WorkerFails
           \/ /\ covered
              /\ worker' = [worker EXCEPT
                     !.acc = [r \in Rows |->
                         [locked |-> @[r].locked - (IF r = PayRow(o) THEN cost ELSE 0),
                          available |-> @[r].available + (IF r = GetRow(o) THEN gain ELSE 0)]],
                     !.pc = IF IsMaker THEN "pay" ELSE "commit",
                     !.k = IF IsMaker THEN @ + 1 ELSE @]
              /\ \/ IsMaker /\ edition = "current" /\ update_redis_maker(p.id, rest)
                 \/ IsMaker /\ edition = "older" /\ update_redis_maker_older(p.id, rest)
                 \/ ~IsMaker /\ UNCHANGED <<book, hash>>
              /\ UNCHANGED <<pg, balLock, ordLock, client, nextId, queue, seq, dropped>>

StatusAfter(o, q) == IF o.filled + q >= o.qty THEN "filled" ELSE "partially_filled"

\* Mutant: only the status is written.
FillStatusOnly(o, q) == [o EXCEPT !.status = StatusAfter(o, q)]

\* update_fill: the order after q more of it has traded.
update_fill(o, q) == [o EXCEPT !.filled = @ + q, !.status = StatusAfter(o, q)]

\* The end of `async with session.begin()`.
WorkerCommit ==
    LET parties == worker.fills
        n == Len(parties)
        done == AfterTrades(worker.msg, worker.left)
    IN  /\ worker.pc = "commit"
        /\ bal' = [r \in Rows |-> [locked |-> bal[r].locked + worker.acc[r].locked,
                                   available |-> bal[r].available + worker.acc[r].available]]
        /\ orders' = [id \in Ids |->
               LET of == {k \in DOMAIN parties : parties[k].id = id}
               IN  IF of = {} THEN orders[id]
                   ELSE update_fill(orders[id], parties[CHOOSE k \in of : TRUE].qty)]
        /\ trades' = trades \o [k \in 1 .. n - 1 |->
               [taker |-> worker.msg.id, maker |-> parties[k].id,
                price |-> parties[k].price, qty |-> parties[k].qty]]
        /\ ReleaseRows(Worker)
        /\ WorkerGoto(done, [worker EXCEPT !.acc = Untouched, !.fills = <<>>, !.k = 0])
        /\ UNCHANGED <<client, nextId, redis, dropped>>

\* _insert_resting_taker: the HASH, with the order's original quantity...
WorkerRestHash ==
    /\ worker.pc = "rest_hash"
    /\ hash' = [hash EXCEPT ![worker.msg.id] = worker.msg.qty]
    /\ WorkerGoto("rest_add", worker)
    /\ UNCHANGED <<pg, balLock, ordLock, client, nextId, queue, book, seq, dropped>>

\* ... then add_resting_order.
WorkerRestAdd ==
    /\ worker.pc = "rest_add"
    /\ seq' = seq + 1
    /\ book' = book \cup {[id |-> worker.msg.id, side |-> worker.msg.side,
                           price |-> worker.msg.price, seq |-> seq + 1]}
    /\ WorkerGoto("idle", worker)
    /\ UNCHANGED <<pg, balLock, ordLock, client, nextId, queue, hash, dropped>>

\* _refund_market_buy_leftover: a transaction of its own that unlocks all the
\* quote the user has locked.
WorkerRefund ==
    LET row == <<worker.msg.user, "quote">>
    IN  /\ worker.pc = "refund"
        /\ balLock[row] = NoOne
        /\ bal' = [bal EXCEPT ![row] = Shift(@, -@.locked)]
        /\ WorkerGoto("idle", worker)
        /\ UNCHANGED <<orders, trades, balLock, ordLock, client, nextId, redis, dropped>>

\* The worker process dies and is restarted: the message it had popped is gone.
WorkerDies == Faults /\ worker.pc # "idle" /\ WorkerFails

-----------------------------------------------------------------------------
(* PostgreSQL's deadlock detector.                                         *)

\* x waits for y.
WaitsFor(x, y) ==
    IF x = Worker
    THEN \/ worker.pc = "orders" /\ ordLock[Party.id] = y
         \/ worker.pc \in {"pay", "get"} /\ WantedRow \in Rows /\ balLock[WantedRow] = y
    ELSE \/ client[x].pc \in {"cancel_lock", "modify_lock"} /\ balLock[RequestRow(x)] = y
         \/ client[x].pc = "cancel_update" /\ ordLock[client[x].old] = y

\* x is on a cycle of waiting transactions (each waits for at most one other).
Deadlocked(x) ==
    \E S \in SUBSET Actors :
        /\ x \in S
        /\ \A y \in S : (\E z \in S \ {y} : WaitsFor(y, z)) /\ (\E z \in S \ {y} : WaitsFor(z, y))

\* One transaction of the cycle is aborted.
DeadlockAbort(x) ==
    /\ Deadlocked(x)
    /\ IF x = Worker THEN WorkerFails ELSE RequestRollback(x)

-----------------------------------------------------------------------------
Init ==
    /\ bal = [r \in Rows |-> [locked |-> 0, available |-> Start[r]]]
    /\ orders = [id \in Ids |-> NoOrder]
    /\ trades = <<>>
    /\ balLock = [r \in Rows |-> NoOne]
    /\ ordLock = [id \in Ids |-> NoOne]
    /\ client = [c \in Clients |-> NoRequest]
    /\ nextId = 1
    /\ queue = <<>> /\ book = {} /\ hash = [id \in Ids |-> 0] /\ seq = 0
    /\ worker = IdleWorker
    /\ dropped = {}
    /\ edition \in Editions

\* A request that has begun goes on.
RequestStep(c) ==
    \/ PlaceEnqueue(c) \/ PlaceHash(c)
    \/ CancelLock(c) \/ CancelUnlock(c) \/ CancelUpdate(c) \/ CancelRedis(c)
    \/ ModifyLock(c) \/ ModifyRedis(c)
    \/ RequestCommit(c)

RequestBegins(c) ==
    /\ Len(queue) <= MaxQueue
    /\ \/ \E m \in Menu : PlaceLock(c, m)
       \/ \E id \in Ids : CancelRead(c, id)
       \/ \E id \in Ids, terms \in Replacements : ModifyBegin(c, id, terms)

WorkerStep ==
    \/ WorkerPop \/ WorkerMatch \/ WorkerUsers \/ WorkerFlush \/ WorkerLockOrder \/ WorkerLockBalance
    \/ WorkerSettle \/ WorkerCommit \/ WorkerRestHash \/ WorkerRestAdd \/ WorkerRefund

Next ==
    /\ \/ \E c \in Clients : RequestBegins(c) \/ RequestStep(c) \/ RequestDies(c)
       \/ WorkerStep
       \/ WorkerDies
       \/ \E x \in Actors : DeadlockAbort(x)
    /\ UNCHANGED edition

Spec == Init /\ [][Next]_vars

\* A request that has begun runs on, the worker keeps consuming, the deadlock
\* detector acts; nobody has to begin a request, nothing has to die.  Fairness
\* is strong where a step may wait for a row: PostgreSQL queues the waiters of
\* a row first come, first served.
FairSpec ==
    /\ Spec
    /\ \A c \in Clients : SF_vars(RequestStep(c) /\ UNCHANGED edition)
    /\ SF_vars(WorkerStep /\ UNCHANGED edition)
    /\ WF_vars(\E x \in Actors : DeadlockAbort(x) /\ UNCHANGED edition)

-----------------------------------------------------------------------------
(* Properties.                                                             *)

Order == [user: Users \cup {NoOne}, side: {"buy", "sell"}, price: Nat, filled: Nat, qty: Nat,
          type: {"limit", "market", "ioc", "fok", "post_only"}, status: Statuses]

\* Committed rows, locks and Redis entries have their types; no committed
\* balance column is ever negative.
TypeOK ==
    /\ bal \in [Rows -> [locked: Nat, available: Nat]]
    /\ orders \in [Ids -> Order]
    /\ \A t \in Range(trades) : t.taker \in Ids /\ t.maker \in Ids /\ t.price \in Nat /\ t.qty \in Nat
    /\ balLock \in [Rows -> Actors \cup {NoOne}]
    /\ ordLock \in [Ids -> Actors \cup {NoOne}]
    /\ \A c \in Clients : client[c].draft \in Order /\ client[c].shift \in Int
    /\ nextId \in 1 .. MaxOrders + 1
    /\ \A m \in Range(queue) : m.kind \in {"place", "cancel", "modify"} /\ m.id \in Ids
    /\ \A e \in book : e.id \in Ids /\ e.seq <= seq
    /\ hash \in [Ids -> Nat]
    /\ worker.left \in Nat /\ worker.k <= Len(worker.fills)
    /\ dropped \subseteq Ids /\ edition \in Editions

\* What the committed trades say user u's holding of asset a has changed by.
NetOfTrades(u, a) ==
    LET sign(id) == IF orders[id].user # u THEN 0
                    ELSE IF GetAsset(orders[id].side) = a THEN 1 ELSE -1
        amount(t) == IF a = "base" THEN t.qty ELSE t.price * t.qty
    IN  SumFunction([i \in DOMAIN trades |->
            (sign(trades[i].taker) + sign(trades[i].maker)) * amount(trades[i])])

\* persist_trade_batch's balance flow: whatever is placed, canceled, modified,
\* aborted or lost, a user holds exactly what the user started with plus what
\* the committed trades brought and cost.  No asset appears, none disappears.
HoldingsMatchTrades ==
    \A u \in Users, a \in {"base", "quote"} :
        LET row == <<u, a>>
            held == IF row \in Rows THEN bal[row].locked + bal[row].available - Start[row] ELSE 0
        IN  held = NetOfTrades(u, a)

\* The exchange of Settlement: committed rows, the locked and the available
\* part of a balance taken together.
Trading == INSTANCE Settlement WITH
    Nobody <- NoOne,
    terms <- [id \in Ids |-> IF orders[id].status = "none" THEN NoOne
                             ELSE [user |-> orders[id].user, side |-> orders[id].side,
                                   price |-> orders[id].price]],
    filled <- [id \in Ids |-> orders[id].filled],
    total <- [r \in Rows |-> bal[r].locked + bal[r].available]

\* Every commit of a request or of persist_trade_batch, and every failure, is
\* an order entered, a whole match settled, or nothing at all: no step shows
\* half a batch, loses or invents an amount, fills an order without a trade or
\* trades against an order's terms.
ImplementsSettlement == Trading!Spec

\* A committed trade is between a buyer and a seller who both accept its price,
\* and at the maker's own price.
TradesHonourLimits ==
    \A t \in Range(trades) : LET tk == orders[t.taker] mk == orders[t.maker] IN
        /\ tk.side = Opposite(mk.side)
        /\ Crosses(tk.side, tk.price, t.price) /\ t.price = mk.price

\* No order trades more than its quantity.
NoOverfill == \A id \in Ids : orders[id].filled <= orders[id].qty

\* What user u's active orders still need of asset a, by their PostgreSQL rows.
Needed(u, a) ==
    SumFunction([id \in Ids |->
        IF orders[id].status \in Active /\ PayRow(orders[id]) = <<u, a>>
        THEN LimitReserve(orders[id], Remaining(orders[id])) ELSE 0])

\* A user's locked balance is exactly what the user's active orders need:
\* nothing stays locked for an order that is over.
LocksExact == \A r \in Rows : bal[r].locked = Needed(r[1], r[2])

Quiet == queue = <<>> /\ worker.pc = "idle" /\ \A c \in Clients : client[c].pc = "idle"

\* When everything has been processed and nothing failed half-way, the Redis
\* book is the set of active orders of PostgreSQL, with their remainders.
BookMirrorsOrders ==
    Quiet /\ dropped = {} =>
        /\ {e.id : e \in book} = {id \in Ids : orders[id].status \in Active}
        /\ \A e \in book : hash[e.id] = Remaining(orders[e.id])

\* When everything has been processed and nothing failed half-way, funds are
\* locked only for orders that rest in the book: a rejected or expired order
\* has given its funds back.
LockedFundsRest ==
    Quiet /\ dropped = {} =>
        \A r \in Rows : bal[r].locked = SumFunction([id \in Ids |->
            IF (\E e \in book : e.id = id) /\ PayRow(orders[id]) = r
            THEN LimitReserve(orders[id], Remaining(orders[id])) ELSE 0])

\* Every queued message is processed: no wait, deadlock or race keeps the worker
\* from emptying the queue for good once users stop asking.
EventuallyQuiet == <>[](queue = <<>> /\ worker.pc = "idle")

\* Every request that has begun ends, committed or aborted: no circle of row
\* locks holds it for ever.
RequestsEnd == \A c \in Clients : client[c].pc # "idle" ~> client[c].pc = "idle"

=============================================================================
