--------------------------- MODULE MatchingEngine ---------------------------
(***************************************************************************)
(* CMatchingEngine (matching/engine.pyx): the in-memory book the worker    *)
(* fills and matches one taker against.  The engine is sequential: a call  *)
(* is one action, except that the matching loop is one action per trade,   *)
(* so that every intermediate book is a state.                             *)
(*                                                                         *)
(* book[side] is the array of price levels, best first; a level is its     *)
(* price, its FIFO of nodes and the two counters the code caches, volume   *)
(* (total_volume) and count (order_count).  Doubles are modelled by whole  *)
(* lots.  Nodes are numbered in the order they are added.                  *)
(***************************************************************************)
EXTENDS PriceTime

CONSTANTS
    Prices,         \* limit prices in use
    Quantities,     \* order quantities in use
    MaxOrders,      \* bound: passive orders added between two resets
    PoolCap,        \* INITIAL_NODE_POOL_CAP
    TradesCap       \* INITIAL_TRADES_CAP

ASSUME EngineAssumption ==
    /\ Prices \subseteq Nat \ {NoPrice}
    /\ Quantities \subseteq Nat \ {0}
    /\ MaxOrders \in Nat /\ PoolCap \in Nat /\ TradesCap \in Nat

Sides == {"buy", "sell"}
Types == {"market", "limit", "ioc", "fok", "post_only"}
Outcomes == {"ok", "fok_rejected", "post_only_cross", "no_liquidity"}

VARIABLES
    book,       \* _bids and _asks
    pool,       \* _node_pool_size
    owed,       \* quantity each node was added with, minus its emitted trades;
                \* 0 once canceled (history)
    taker,      \* the order being matched, or the last one matched
    phase,      \* "idle", "walking" (inside _match_internal's loop)
    trades,     \* _trades_buf[0.._trades_count]
    outcome,    \* the last call's CMatchOutcome
    before,     \* the makers in priority order when the call began (history)
    overflow    \* the trades buffer has overflowed since the last reset (history)

vars == <<book, pool, owed, taker, phase, trades, outcome, before, overflow>>

-----------------------------------------------------------------------------
(* Price levels.                                                           *)

Node == [id: Nat, rem: Nat, vis: Int, ice: BOOLEAN]
Level == [price: Prices, queue: Seq(Node), volume: Int, count: Int]

\* Binary search for the level of `price`; 0 when there is none (-1 in C).
find_level_idx(side, price) ==
    LET levels == book[side]
        n == Len(levels)
        search[r \in (1 .. n + 1) \X (0 .. n)] ==
            LET mid == (r[1] + r[2]) \div 2
            IN  IF r[1] > r[2] THEN 0
                ELSE IF levels[mid].price = price THEN mid
                ELSE IF Better(side, levels[mid].price, price) THEN search[<<mid + 1, r[2]>>]
                ELSE search[<<r[1], mid - 1>>]
    IN  search[<<1, n>>]

\* Where _insert_level's loop stops: at the first worse level, or past the last.
insert_position(side, price) ==
    LET worse == SelectInSeq(book[side], LAMBDA l : Better(side, price, l.price))
    IN  IF worse = 0 THEN Len(book[side]) + 1 ELSE worse

\* The levels with an empty one for `price` at that place.
insert_level(side, price) ==
    InsertAt(book[side], insert_position(side, price),
             [price |-> price, queue |-> <<>>, volume |-> 0, count |-> 0])

\* Mutants: the cached volume is forgotten; a level is a stack.
AppendForgetsVolume(l, node) == [l EXCEPT !.queue = Append(@, node), !.count = @ + 1]
AppendAtHead(l, node) ==
    [l EXCEPT !.queue = <<node>> \o @, !.volume = @ + node.rem, !.count = @ + 1]

append_order_to_level(l, node) ==
    [l EXCEPT !.queue = Append(@, node), !.volume = @ + node.rem, !.count = @ + 1]

\* The side with level i replaced, or removed when its count says it is empty.
maybe_compact_level(levels, i, l) ==
    IF l.count = 0 THEN RemoveAt(levels, i) ELSE ReplaceAt(levels, i, l)

\* The resting orders of a side, best first.
QueueOf(side) ==
    FoldLeft(LAMBDA acc, l : acc \o [i \in DOMAIN l.queue |->
                 [id |-> l.queue[i].id, price |-> l.price, qty |-> l.queue[i].rem]],
             <<>>, book[side])

-----------------------------------------------------------------------------
\* The engine the worker uses next: it resets after an overflow, and the result
\* of the previous match has been copied out.
Ready == phase = "idle" /\ ~overflow

NoTaker == [side |-> "buy", type |-> "limit", price |-> NoPrice, qty |-> 0, rem |-> 0]

ForgetResult ==
    /\ taker' = NoTaker
    /\ trades' = <<>>
    /\ outcome' = "ok"
    /\ before' = <<>>

Init ==
    /\ book = [s \in Sides |-> <<>>]
    /\ pool = 0
    /\ owed = <<>>
    /\ taker = NoTaker
    /\ phase = "idle"
    /\ trades = <<>>
    /\ outcome = "ok"
    /\ before = <<>>
    /\ overflow = FALSE

\* reset: an empty book on the same memory.
reset ==
    /\ phase = "idle"
    /\ book' = [s \in Sides |-> <<>>]
    /\ pool' = 0
    /\ owed' = <<>> /\ overflow' = FALSE
    /\ ForgetResult
    /\ UNCHANGED phase

\* add_passive_order.  With the pool exhausted _ensure_node_pool_cap raises
\* MemoryError and nothing changes, so the call is not a step.
add_passive_order(side, price, qty, ice, vis) ==
    LET node == [id |-> Len(owed) + 1, rem |-> qty,
                 vis |-> IF ice THEN vis ELSE qty, ice |-> ice]
        i == find_level_idx(side, price)
        levels == IF i = 0 THEN insert_level(side, price) ELSE book[side]
        j == IF i = 0 THEN insert_position(side, price) ELSE i
    IN  /\ Ready
        /\ book[Opposite(side)] = <<>>      \* the worker loads one side only
        /\ Len(owed) < MaxOrders
        /\ pool < PoolCap
        /\ pool' = pool + 1
        /\ book' = [book EXCEPT ![side] =
                        ReplaceAt(levels, j, append_order_to_level(levels[j], node))]
        /\ owed' = Append(owed, qty)
        /\ ForgetResult
        /\ UNCHANGED <<phase, overflow>>

\* cancel_order(order_id, side, price): unlink the node, adjust the counters.
cancel_order(id, side, price) ==
    LET i == find_level_idx(side, price)
        l == book[side][i]
        k == SelectInSeq(l.queue, LAMBDA n : n.id = id)
    IN  /\ Ready
        /\ i # 0
        /\ k # 0
        /\ book' = [book EXCEPT ![side] = maybe_compact_level(book[side], i,
                        [l EXCEPT !.queue = RemoveAt(@, k),
                                  !.volume = @ - l.queue[k].rem,
                                  !.count = @ - 1])]
        /\ ForgetResult
        /\ owed' = [owed EXCEPT ![id] = 0]
        /\ UNCHANGED <<pool, phase, overflow>>

-----------------------------------------------------------------------------
(* match_active_order.                                                     *)

Opp == Opposite(taker.side)

\* _would_cross: the best opposite price is acceptable.
would_cross(o) ==
    LET opp == book[Opposite(o.side)]
    IN  opp # <<>> /\ Crosses(o.side, o.price, opp[1].price)

\* _precheck_fok: the cached volumes of the acceptable levels suffice.
precheck_fok(o) ==
    LET opp == book[Opposite(o.side)]
        ok == {i \in DOMAIN opp : Crosses(o.side, o.price, opp[i].price)}
    IN  SumFunction([i \in ok |-> opp[i].volume]) >= o.qty

\* Clear the trades buffer, then the Post-Only guard and the FOK precheck.  The
\* worker loads the side opposite to the taker's.
match_active_order(o) ==
    /\ Ready
    /\ book[o.side] = <<>>
    /\ trades' = <<>>
    /\ taker' = o
    /\ before' = QueueOf(Opposite(o.side))
    /\ \/ /\ o.type = "post_only"
          /\ outcome' = IF would_cross(o) THEN "post_only_cross" ELSE "ok"
          /\ UNCHANGED phase
       \/ /\ o.type = "fok" /\ ~precheck_fok(o)
          /\ outcome' = "fok_rejected"
          /\ UNCHANGED phase
       \/ /\ o.type # "post_only"
          /\ o.type = "fok" => precheck_fok(o)
          /\ phase' = "walking"
          /\ outcome' = "ok"
    /\ UNCHANGED <<book, pool, owed, overflow>>

\* Mutant: the limit price is not looked at.
WantsBestAnyPrice == taker.rem > 0 /\ book[Opp] # <<>>

\* The loop goes on while the taker wants more and the best level is acceptable.
\* A level the loop leaves behind non-empty has satisfied the taker, so the
\* level at hand is always the first one and its maker the head.
WantsBest ==
    /\ taker.rem > 0
    /\ book[Opp] # <<>>
    /\ Crosses(taker.side, taker.price, book[Opp][1].price)

\* No room in the trades buffer for one more.
BufferFull == Len(trades) >= TradesCap

\* What is exposed of a maker, and the maker after giving up q of it; an
\* iceberg whose chunk is gone exposes all that remains.
Exposed(m) == IF m.ice /\ m.vis < m.rem THEN m.vis ELSE m.rem

AfterFill(m, q) ==
    [m EXCEPT !.rem = @ - q,
              !.vis = IF ~m.ice THEN @
                      ELSE IF q = Exposed(m) THEN m.rem - q ELSE @ - q]

\* One turn of the inner loop: take from the head of the best level, emit the
\* trade, unlink an exhausted maker, drop an empty level.
FillMaker ==
    LET l == book[Opp][1]
        m == Head(l.queue)
        q == Min({taker.rem, Exposed(m)})
        left == AfterFill(m, q)
        gone == left.rem <= 0
        l1 == [l EXCEPT !.queue = IF gone THEN Tail(@) ELSE <<left>> \o Tail(@),
                        !.volume = @ - q,
                        !.count = IF gone THEN @ - 1 ELSE @]
    IN  /\ phase = "walking"
        /\ WantsBest
        /\ ~BufferFull
        /\ taker' = [taker EXCEPT !.rem = @ - q]
        /\ trades' = Append(trades, [maker |-> m.id, price |-> l.price, qty |-> q])
        /\ owed' = [owed EXCEPT ![m.id] = @ - q]
        /\ book' = [book EXCEPT ![Opp] = maybe_compact_level(@, 1, l1)]
        /\ UNCHANGED <<pool, phase, outcome, before, overflow>>

\* The buffer is full: quantities have been decremented, no trade is emitted,
\* the loop breaks and reports C_NO_LIQUIDITY.
TradesOverflow ==
    LET l == book[Opp][1]
        m == Head(l.queue)
        q == Min({taker.rem, Exposed(m)})
        l1 == [l EXCEPT !.queue = ReplaceAt(@, 1, AfterFill(m, q)), !.volume = @ - q]
    IN  /\ phase = "walking"
        /\ WantsBest
        /\ BufferFull
        /\ taker' = [taker EXCEPT !.rem = @ - q]
        /\ book' = [book EXCEPT ![Opp] = ReplaceAt(@, 1, l1)]
        /\ overflow' = TRUE
        /\ outcome' = "no_liquidity"
        /\ phase' = "idle"
        /\ UNCHANGED <<pool, owed, trades, before>>

\* The outcome decision.
ReportOutcome ==
    /\ outcome' = IF taker.rem > 0 /\ taker.type \in {"market", "ioc"} /\ trades = <<>>
                  THEN "no_liquidity" ELSE "ok"
    /\ phase' = "idle"
    /\ UNCHANGED <<book, pool, owed, taker, trades, before, overflow>>

\* Mutant: an unacceptable price does not end the loop.
FinishMatchDry ==
    /\ phase = "walking"
    /\ taker.rem = 0 \/ book[Opp] = <<>>
    /\ ReportOutcome

\* The loop is over.
FinishMatch ==
    /\ phase = "walking"
    /\ ~WantsBest
    /\ ReportOutcome

Takers ==
    {o \in [side: Sides, type: Types, price: Prices \cup {NoPrice}, qty: Quantities, rem: Quantities] :
        o.rem = o.qty /\ (o.price = NoPrice <=> o.type = "market")}

Next ==
    \/ reset
    \/ \E side \in Sides, price \in Prices, qty \in Quantities :
           \/ add_passive_order(side, price, qty, FALSE, qty)
           \/ \E vis \in Quantities : vis < qty /\ add_passive_order(side, price, qty, TRUE, vis)
    \/ \E id \in DOMAIN owed, side \in Sides, price \in Prices : cancel_order(id, side, price)
    \/ \E o \in Takers : match_active_order(o)
    \/ FillMaker
    \/ TradesOverflow
    \/ FinishMatch

Spec == Init /\ [][Next]_vars /\ WF_vars(FillMaker \/ TradesOverflow \/ FinishMatch)

-----------------------------------------------------------------------------
(* Properties.                                                             *)

\* Every component of the engine has its type.
TypeOK ==
    /\ \A s \in Sides : \A i \in DOMAIN book[s] : book[s][i] \in Level
    /\ pool \in 0 .. PoolCap
    /\ taker.rem \in 0 .. taker.qty
    /\ phase \in {"idle", "walking"}
    /\ outcome \in Outcomes
    /\ Len(trades) <= TradesCap

\* Until the trades buffer overflows, each side is a well-formed book between
\* any two trades: levels strictly sorted, best first, none of them empty, both
\* cached counters exact (FOK trusts total_volume, compaction trusts
\* order_count), every node still has something to give and no more than was
\* added minus what the trades took.
BookWellFormed ==
    /\ TypeOK
    /\ ~overflow =>
          \A s \in Sides : LET levels == book[s] IN
              \A i \in DOMAIN levels : LET l == levels[i] IN
                  /\ i > 1 => Better(s, levels[i - 1].price, l.price)
                  /\ l.queue # <<>> /\ l.count = Len(l.queue)
                  /\ l.volume = SumFunction([k \in DOMAIN l.queue |-> l.queue[k].rem])
                  /\ \A k \in DOMAIN l.queue : LET n == l.queue[k] IN
                         n.rem > 0 /\ n.rem = owed[n.id]

\* Price-time priority: a trade is always with a maker that no resting order
\* beats on price, nor on age at the same price, and at that maker's price.
PriceTimePriority ==
    [][Len(trades') > Len(trades) =>
        LET t == trades'[Len(trades')]
            queue == QueueOf(Opp)
            maker == queue[SelectInSeq(queue, LAMBDA m : m.id = t.maker)]
        IN  ~overflow =>
            /\ t.price = maker.price /\ Crosses(taker.side, taker.price, t.price)
            /\ \A i \in DOMAIN queue :
                  /\ ~Better(Opp, queue[i].price, t.price)
                  /\ queue[i].price = t.price => queue[i].id >= t.maker]_vars

TakenFrom(id) ==
    SumFunction([i \in DOMAIN trades |-> IF trades[i].maker = id THEN trades[i].qty ELSE 0])

\* The loop computes the closed form of price-time matching: when a call is
\* over, every maker of the book it started with gave exactly Fills, the taker
\* is left with the rest, FOK traded everything or nothing, Post-Only nothing.
\* And the outcome tells the truth of it: a rejected call has traded nothing, an
\* FOK that is not rejected is filled, Post-Only is refused exactly when it crosses.
MatchesReference ==
    phase = "idle" /\ ~overflow =>
        LET reach == Reachable(before, taker.side, taker.price)
            want == IF \/ taker.type = "post_only"
                       \/ taker.type = "fok" /\ Volume(reach) < taker.qty
                    THEN 0 ELSE taker.qty
        IN  /\ \A i \in DOMAIN reach : TakenFrom(reach[i].id) = Fills(reach, want)[i]
            /\ \A i \in DOMAIN trades : \E k \in DOMAIN reach : reach[k].id = trades[i].maker
            /\ taker.qty - taker.rem = Min({want, Volume(reach)})
            /\ outcome # "ok" => trades = <<>>
            /\ taker.type = "fok" /\ outcome = "ok" => taker.rem = 0
            /\ taker.type = "post_only" => (outcome = "ok" <=> reach = <<>>)

\* The matching loop ends: no order makes the engine spin.
MatchTerminates == phase = "walking" ~> phase = "idle"

=============================================================================
