----------------------------- MODULE OrderBook -----------------------------
(***************************************************************************)
(* redis_client/orderbook.py: the book of one symbol in Redis.  Each side  *)
(* is a sorted set whose score packs (price, sequence number) into one     *)
(* double; each order has a HASH with its quantities.  Exchange uses the   *)
(* book at the level of prices and sequence numbers; here are the scores,  *)
(* the roll-over of the counter, the rounding, and every command that      *)
(* another client of Redis can run in between.                             *)
(*                                                                         *)
(* A redis-py pipeline is MULTI/EXEC: one step.  The matching worker is    *)
(* the only one that adds orders; cancels come from API requests; the      *)
(* readers are matches, market-buy estimates and snapshots.                *)
(*                                                                         *)
(* Prices are integers in units of 1/Tick of the book's 10^-4.             *)
(***************************************************************************)
EXTENDS Integers, Sequences, FiniteSets, FiniteSetsExt, Functions

CONSTANTS
    Ids,            \* order ids, compared as Redis compares members
    Menu,           \* terms an order may have: [side, price, qty, visible]
    Readers,        \* clients of Redis that read the book
    Cancelers,      \* API requests that cancel
    Cancelable,     \* the orders whose users cancel
    NoHash,         \* no HASH under the key
    Tick,           \* fine price units in 10^-4
    Multiplier,     \* SCORE_MULTIPLIER
    Exact,          \* 2^53: integers below it are doubles
    MaxPrice,       \* encode_score's limit, 9.2e9
    Depth           \* how many members a read takes

ASSUME OrderBookAssumption ==
    /\ Tick \in Nat \ {0} /\ Multiplier \in Nat \ {0} /\ Exact \in Nat \ {0}
    /\ Ids \subseteq Nat /\ MaxPrice \in Nat /\ Depth \in Nat \ {0}
    /\ Menu \subseteq [side : {"buy", "sell"}, price : Nat, qty : Nat, visible : Nat]
    /\ Cancelable \subseteq Ids
    /\ NoHash \notin [qty : Nat, visible : Nat]

VARIABLES
    terms,      \* the terms of each order, which never change
    zset,       \* ob:{symbol}:bids and :asks: [id, side, score]
    hash,       \* order:{id}
    counter,    \* seq:orders:{symbol}
    adder,      \* the worker's _insert_resting_taker
    reader,     \* reads in progress, and their results
    canceler,   \* cancels in progress
    cleaner,    \* clear_symbol_book, once: its stage and the members it has listed
    turn,       \* history: the counter when the order was added
    gone,       \* history: orders whose cancel has left Redis
    raced       \* history: orders canceled or cleared while the worker added them

vars == <<terms, zset, hash, counter, adder, reader, canceler, cleaner, turn, gone, raced>>
history == <<turn, gone, raced>>

-----------------------------------------------------------------------------
(* Scores.                                                                 *)

\* Python's round, and the rounding of a double: half to even.
HalfEven(n, unit) ==
    LET q == n \div unit
        r == n % unit
    IN  IF 2 * r < unit \/ (2 * r = unit /\ q % 2 = 0) THEN q ELSE q + 1

\* Mutant: the price is truncated.
Truncated(price) == price \div Tick

PriceInt(price) == HalfEven(price, Tick)

\* The distance of neighbouring doubles at n (up to 8 * Exact).
Spacing(n) == IF n < Exact THEN 1 ELSE IF n < 2 * Exact THEN 2 ELSE IF n < 4 * Exact THEN 4 ELSE 8

ToDouble(n) == Spacing(n) * HalfEven(n, Spacing(n))

\* Mutant: the sequence number counts down, as it should for bids only.
ScoreNewestFirst(price, seq) == ToDouble(PriceInt(price) * Multiplier + (Multiplier - 1 - seq))

encode_score(price, seq) == ToDouble(PriceInt(price) * Multiplier + seq)

decode_score(score) == [price |-> score \div Multiplier, seq |-> score % Multiplier]

\* encode_score raises ValueError otherwise.
Encodable(price) == price >= 0 /\ price <= MaxPrice

next_seq(n) == n % Multiplier

-----------------------------------------------------------------------------
(* Reading.                                                                *)

side_key(side) == {e \in zset : e.side = side}

opposite(side) == IF side = "buy" THEN "sell" ELSE "buy"

\* ZRANGE order: by score, then by member.
Below(a, b) == a.score < b.score \/ (a.score = b.score /\ a.id < b.id)

\* ZRANGE of the asks, ZREVRANGE of the bids.
Before(side, a, b) == IF side = "sell" THEN Below(a, b) ELSE Below(b, a)

Ranked(side) ==
    CHOOSE s \in [1 .. Cardinality(side_key(side)) -> side_key(side)] :
        \A i, j \in DOMAIN s : i < j => Before(side, s[i], s[j])

\* The first n members.
BestOf(side, n) ==
    LET all == Ranked(side)
    IN  [i \in {k \in DOMAIN all : k <= n} |-> all[i]]

\* HGETALL of every member, those without a HASH skipped (their places stay
\* empty: only the order of the others counts).
WithHash(raw) ==
    [i \in {k \in DOMAIN raw : hash[raw[k].id] # NoHash} |->
        [id |-> raw[i].id, price |-> decode_score(raw[i].score).price,
         qty |-> hash[raw[i].id].qty, visible |-> hash[raw[i].id].visible]]

\* Mutant: the last order of a level replaces the others.
AggregateLast(side, list) ==
    [p \in {list[i].price : i \in DOMAIN list} |->
        list[Max({i \in DOMAIN list : list[i].price = p})].visible]

\* _aggregate: visible volume per decoded price.
Aggregate(side, list) ==
    [p \in {list[i].price : i \in DOMAIN list} |->
        SumFunction([i \in {j \in DOMAIN list : list[j].price = p} |-> list[i].visible])]

NoRead == [pc |-> "idle", kind |-> "match", side |-> "buy", raw |-> <<>>, list |-> <<>>,
           other |-> <<>>, clean |-> TRUE]

\* History: a write since the read began.
Spoil == reader' = [r \in Readers |-> [reader[r] EXCEPT !.clean = @ /\ reader[r].pc = "idle"]]

\* get_opposite_orders_for_match, first round trip.
MatchRange(r, side) ==
    /\ reader[r].pc = "idle"
    /\ reader' = [reader EXCEPT ![r] = [NoRead EXCEPT !.pc = "hashes", !.side = opposite(side),
                                               !.raw = BestOf(opposite(side), Depth)]]
    /\ UNCHANGED <<terms, zset, hash, counter, adder, canceler, cleaner, history>>

\* get_book_snapshot: both ranges, then the HASHes of the bids, then the asks'.
SnapshotBids(r) ==
    /\ reader[r].pc = "idle"
    /\ reader' = [reader EXCEPT ![r] = [NoRead EXCEPT !.pc = "asks", !.kind = "snapshot",
                                               !.raw = BestOf("buy", Depth)]]
    /\ UNCHANGED <<terms, zset, hash, counter, adder, canceler, cleaner, history>>

SnapshotAsks(r) ==
    /\ reader[r].pc = "asks"
    /\ reader' = [reader EXCEPT ![r].pc = "hashes", ![r].other = BestOf("sell", Depth)]
    /\ UNCHANGED <<terms, zset, hash, counter, adder, canceler, cleaner, history>>

ReadHashes(r) ==
    /\ reader[r].pc = "hashes"
    /\ reader' = [reader EXCEPT ![r].list = WithHash(reader[r].raw),
                      ![r].pc = IF reader[r].kind = "snapshot" THEN "asks_hashes" ELSE "done"]
    /\ UNCHANGED <<terms, zset, hash, counter, adder, canceler, cleaner, history>>

SnapshotAskHashes(r) ==
    /\ reader[r].pc = "asks_hashes"
    /\ reader' = [reader EXCEPT ![r].other = WithHash(@), ![r].pc = "done"]
    /\ UNCHANGED <<terms, zset, hash, counter, adder, canceler, cleaner, history>>

\* The caller takes the result.
ReadReturn(r) ==
    /\ reader[r].pc = "done"
    /\ reader' = [reader EXCEPT ![r] = NoRead]
    /\ UNCHANGED <<terms, zset, hash, counter, adder, canceler, cleaner, history>>

-----------------------------------------------------------------------------
(* Adding: store_order_hash, INCR, then ZADD, three round trips.           *)

NoAdd == [pc |-> "idle", id |-> 0, seq |-> 0]

Adding(id) == adder.pc # "idle" /\ adder.id = id

\* store_order_hash with the metadata of _insert_resting_taker.  Orders arrive in
\* the order of their ids; Ids is the bound on how many.
RestStore(id) ==
    /\ adder.pc = "idle" /\ turn[id] = 0 /\ \A older \in Ids : older < id => turn[older] > 0
    /\ hash' = [hash EXCEPT ![id] = [qty |-> terms[id].qty, visible |-> terms[id].visible]]
    /\ adder' = [pc |-> "number", id |-> id, seq |-> 0]
    /\ raced' = IF id \in gone \/ \E c \in Cancelers : canceler[c].id = id THEN raced \cup {id} ELSE raced
    /\ Spoil
    /\ UNCHANGED <<terms, zset, counter, canceler, cleaner, turn, gone>>

\* next_seq; encode_score raises for a price out of range, after the INCR.
RestNumber ==
    /\ adder.pc = "number"
    /\ counter' = counter + 1                              \* INCR
    /\ turn' = [turn EXCEPT ![adder.id] = counter + 1]
    /\ adder' = IF Encodable(terms[adder.id].price)
                THEN [adder EXCEPT !.pc = "add", !.seq = next_seq(counter + 1)] ELSE NoAdd
    /\ UNCHANGED <<terms, zset, hash, reader, canceler, cleaner, gone, raced>>

\* ZADD: a member that is there gets the new score.
RestAdd ==
    LET id == adder.id
    IN  /\ adder.pc = "add"
        /\ zset' = {e \in zset : ~(e.id = id /\ e.side = terms[id].side)} \cup
                   {[id |-> id, side |-> terms[id].side, score |-> encode_score(terms[id].price, adder.seq)]}
        /\ adder' = NoAdd
        /\ Spoil
        /\ UNCHANGED <<terms, hash, counter, canceler, cleaner, history>>

\* The worker dies between two round trips.
AdderDies ==
    /\ adder.pc # "idle"
    /\ adder' = NoAdd
    /\ turn' = [turn EXCEPT ![adder.id] = IF @ = 0 THEN counter + 1 ELSE @]
    /\ UNCHANGED <<terms, zset, hash, counter, reader, canceler, cleaner, gone, raced>>

-----------------------------------------------------------------------------
(* Fills and cancels.                                                      *)

\* The worker fills what its match read returned, canceled meanwhile or not.
Matched(id) ==
    \E r \in Readers : /\ reader[r].pc = "done" /\ reader[r].kind = "match"
                       /\ \E i \in DOMAIN reader[r].list : reader[r].list[i].id = id

\* update_order_hash_fields of _update_redis_maker: HSET, HASH or no HASH.
FillPart(id) ==
    /\ adder.pc = "idle" /\ Matched(id) /\ terms[id].qty > 1
    /\ hash' = [hash EXCEPT ![id] = [qty |-> 1, visible |-> 1]]
    /\ Spoil
    /\ UNCHANGED <<terms, zset, counter, adder, canceler, cleaner, history>>

\* Mutant: the member is looked for on the other side.
RemoveOpposite(id, side) == {e \in zset : ~(e.id = id /\ e.side = opposite(side))}

\* ZREM by member.
remove_resting_order(id, side) == {e \in zset : ~(e.id = id /\ e.side = side)}

\* A maker is filled: ZREM, then DEL (one step: a read in between skips the
\* order either way, and the only other writer, a cancel, does the same).
FillAll(id) ==
    /\ adder.pc = "idle" /\ Matched(id)
    /\ zset' = remove_resting_order(id, terms[id].side)
    /\ hash' = [hash EXCEPT ![id] = NoHash]
    /\ Spoil
    /\ UNCHANGED <<terms, counter, adder, canceler, cleaner, history>>

NoCancel == [pc |-> "idle", id |-> 0]

\* cancel_order: ZREM, then delete_order_hash.
CancelRemove(c, id) ==
    /\ canceler[c].pc = "idle" /\ id \in Cancelable \ gone
    /\ zset' = remove_resting_order(id, terms[id].side)
    /\ canceler' = [canceler EXCEPT ![c] = [pc |-> "delete", id |-> id]]
    /\ raced' = IF Adding(id) THEN raced \cup {id} ELSE raced
    /\ Spoil
    /\ UNCHANGED <<terms, hash, counter, adder, cleaner, turn, gone>>

CancelDelete(c) ==
    LET id == canceler[c].id
    IN  /\ canceler[c].pc = "delete"
        /\ hash' = [hash EXCEPT ![id] = NoHash]
        /\ canceler' = [canceler EXCEPT ![c] = NoCancel]
        /\ gone' = gone \cup {id}
        /\ raced' = IF Adding(id) THEN raced \cup {id} ELSE raced
        /\ Spoil
        /\ UNCHANGED <<terms, zset, counter, adder, cleaner, turn>>

-----------------------------------------------------------------------------
(* clear_symbol_book: the members are listed, then one pipeline deletes    *)
(* both sets, the counter and the listed HASHes.  The two ranges are one   *)
(* step: an order that arrives between them leaves its HASH, no more.      *)

ClearList ==
    /\ cleaner.pc = "not_yet" /\ zset # {}
    /\ cleaner' = [pc |-> "delete", ids |-> {e.id : e \in zset}]
    /\ UNCHANGED <<terms, zset, hash, counter, adder, reader, canceler, history>>

ClearDelete ==
    /\ cleaner.pc = "delete"
    /\ zset' = {} /\ counter' = 0 /\ cleaner' = [pc |-> "done", ids |-> {}]
    /\ hash' = [id \in Ids |-> IF id \in cleaner.ids THEN NoHash ELSE hash[id]]
    /\ raced' = IF adder.pc = "idle" THEN raced ELSE raced \cup {adder.id}
    /\ Spoil
    /\ UNCHANGED <<terms, adder, canceler, turn, gone>>

Init ==
    /\ terms \in [Ids -> Menu]
    /\ zset = {} /\ counter = 0 /\ adder = NoAdd /\ cleaner = [pc |-> "not_yet", ids |-> {}]
    /\ hash = [id \in Ids |-> NoHash]
    /\ reader = [r \in Readers |-> NoRead]
    /\ canceler = [c \in Cancelers |-> NoCancel]
    /\ turn = [id \in Ids |-> 0] /\ gone = {} /\ raced = {}

Next ==
    \/ \E r \in Readers : \/ \E s \in {"buy", "sell"} : MatchRange(r, s)
                          \/ SnapshotBids(r) \/ SnapshotAsks(r) \/ SnapshotAskHashes(r)
                          \/ ReadHashes(r) \/ ReadReturn(r)
    \/ \E id \in Ids : RestStore(id) \/ FillPart(id) \/ FillAll(id)
    \/ RestNumber \/ RestAdd \/ AdderDies
    \/ \E c \in Cancelers : CancelDelete(c) \/ \E id \in Ids : CancelRemove(c, id)
    \/ ClearList \/ ClearDelete

Spec == Init /\ [][Next]_vars
-----------------------------------------------------------------------------
(* Properties.                                                             *)

\* The packing of the score is exact for the order: no precision is lost.
Precise(id) == PriceInt(terms[id].price) * Multiplier + Multiplier <= Exact

\* The counter did not roll over between two additions.
SameLap(a, b) == turn[a] \div Multiplier = turn[b] \div Multiplier

\* Every variable has the shape the code gives it.
TypeOK ==
    /\ terms \in [Ids -> Menu]
    /\ \A e \in zset : e.id \in Ids /\ e.side = terms[e.id].side /\ e.score \in Nat
    /\ hash \in [Ids -> [qty : Nat, visible : Nat] \cup {NoHash}]
    /\ counter \in Nat /\ turn \in [Ids -> Nat]
    /\ adder.pc \in {"idle", "number", "add"} /\ (adder.pc # "idle" => adder.id \in Ids)
    /\ adder.seq \in 0 .. Multiplier - 1
    /\ \A c \in Cancelers : canceler[c].pc = "delete" => canceler[c].id \in Ids
    /\ gone \subseteq Ids /\ raced \subseteq Ids /\ cleaner.ids \subseteq Ids

\* get_opposite_orders_for_match gives the engine the best prices first and, at
\* one price, asks oldest first and bids youngest first (ZREVRANGE), as long as
\* the counter has not rolled over and the score is exact.
MatchReadOrder ==
    \A r \in Readers : reader[r].pc = "done" /\ reader[r].kind = "match" =>
        LET l == reader[r].list
        IN  \A i, j \in DOMAIN l : i < j /\ Precise(l[i].id) /\ Precise(l[j].id) =>
                \/ IF reader[r].side = "sell" THEN l[i].price < l[j].price ELSE l[i].price > l[j].price
                \/ /\ l[i].price = l[j].price
                   /\ SameLap(l[i].id, l[j].id) /\ {l[i].id, l[j].id} \cap raced = {} =>
                          IF reader[r].side = "sell" THEN turn[l[i].id] < turn[l[j].id]
                                                     ELSE turn[l[i].id] > turn[l[j].id]

\* The price a reader decodes is the order's limit to within half a tick of the
\* book, so makers trade at most that far from their limit.
PriceWithinHalfTick ==
    \A r \in Readers : reader[r].pc = "done" /\ reader[r].kind = "match" =>
        \A i \in DOMAIN reader[r].list :
            LET id == reader[r].list[i].id
                drift == 2 * (reader[r].list[i].price * Tick - terms[id].price)
            IN  Precise(id) => -Tick <= drift /\ drift <= Tick

\* The orders at the price, on the side, that the next reader would count.
LevelVolume(side, p) ==
    LET at == {e \in side_key(side) : decode_score(e.score).price = p /\ hash[e.id] # NoHash}
    IN  MapThenSumSet(LAMBDA e : hash[e.id].visible, at)

\* A snapshot no write interfered with shows the true volume of every level but
\* its worst one, which the depth may cut, of that one too when the whole side fits
\* the depth, and skips no level in between.
SnapshotTrue ==
    \A r \in Readers : reader[r].pc = "done" /\ reader[r].kind = "snapshot" /\ reader[r].clean =>
        \A side \in {"buy", "sell"} :
            LET list == IF side = "buy" THEN reader[r].list ELSE reader[r].other
                shown == Aggregate(side, list)
                worst == IF side = "buy" THEN Min(DOMAIN shown) ELSE Max(DOMAIN shown)
                inside(p) == IF side = "buy" THEN p > worst ELSE p < worst
            IN  DOMAIN shown # {} =>
                /\ shown[worst] <= LevelVolume(side, worst)
                /\ Cardinality(side_key(side)) <= Depth => shown[worst] = LevelVolume(side, worst)
                /\ \A e \in side_key(side) :
                       LET p == decode_score(e.score).price
                       IN  inside(p) /\ hash[e.id] # NoHash =>
                              p \in DOMAIN shown /\ shown[p] = LevelVolume(side, p)

\* A member of the book has its HASH, or a cancel or a clear ran while the worker
\* was between its HSET and its ZADD, or is between its own two commands; all
\* state keeps its type.
MembersHaveHash ==
    TypeOK /\ \A e \in zset : hash[e.id] = NoHash => e.id \in raced

\* A canceled order is not in the book again, unless the cancel ran before or
\* during the worker's insertion, which does not look for cancels.
CanceledStaysOut ==
    \A e \in zset : e.id \in gone => e.id \in raced

=============================================================================
