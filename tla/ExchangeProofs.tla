--------------------------- MODULE ExchangeProofs ---------------------------
(***************************************************************************)
(* Proofs about Exchange, for any users, requests, orders, faults and      *)
(* either edition.  The argument: an id is drawn once and its terms never  *)
(* change, so that what the queue, the book and the worker know of an      *)
(* order is what PostgreSQL will have if the order is ever committed; a    *)
(* balance row changes only at the commit of the transaction that holds    *)
(* it; and what the worker has taken and given so far is what the trades   *)
(* of the parties it has settled say.                                      *)
(***************************************************************************)
EXTENDS Exchange, FiniteLemmas, SequenceTheorems

Sides == {"buy", "sell"}
Types == {"limit", "market", "ioc", "fok", "post_only"}
Amounts == [locked : Int, available : Int]
MessageRow == [kind : {"place", "cancel", "modify"}, id : Ids, user : Users \cup {NoOne}, side : Sides,
               type : Types, price : Nat, qty : Nat]
NoMessage == Message("none", 0, NoOrder)
Fill == [id : Ids, price : Nat, qty : Nat, quote : Nat]
Trade == [taker : Ids, maker : Ids, price : Nat, qty : Nat]
BookRow == [id : Ids, side : Sides, price : Nat, seq : Nat]

PlacePCs == {"place_enqueue", "place_hash", "place_commit"}
CancelPCs == {"cancel_lock", "cancel_update", "cancel_redis", "cancel_commit"}
ModifyPCs == {"modify_lock", "modify_redis", "modify_commit"}
Request == [pc : {"idle"} \cup PlacePCs \cup CancelPCs \cup ModifyPCs, old : 0 .. MaxOrders,
            new : 0 .. MaxOrders, draft : Order, want : Int, shift : Int]

SettlePCs == {"pay", "get", "settle", "commit"}
BatchPCs == {"users", "flush", "orders"} \cup SettlePCs
WorkerState == [pc : {"idle", "match", "rest_hash", "rest_add", "refund"} \cup BatchPCs,
                msg : MessageRow \cup {NoMessage}, fills : Seq(Fill), k : Nat,
                acc : [Rows -> Amounts], left : Nat]

-----------------------------------------------------------------------------
(* The inductive invariant.                                                *)

TypedPg ==
    /\ bal \in [Rows -> [locked : Nat, available : Nat]]
    /\ orders \in [Ids -> Order]
    /\ trades \in Seq(Trade)
    /\ balLock \in [Rows -> Actors \cup {NoOne}]
    /\ ordLock \in [Ids -> Actors \cup {NoOne}]

TypedRedis ==
    /\ queue \in Seq(MessageRow)
    /\ book \subseteq BookRow /\ IsFiniteSet(book)
    /\ hash \in [Ids -> Nat] /\ seq \in Nat

TypedActors ==
    /\ client \in [Clients -> Request]
    /\ worker \in WorkerState
    /\ nextId \in 1 .. MaxOrders + 1 /\ dropped \subseteq Ids /\ edition \in Editions

Typed == TypedPg /\ TypedRedis /\ TypedActors

\* A committed order, and one a request is about to insert: its payer has a row.
OrderOk(o) == o.user \in Users /\ PayRow(o) \in Rows

Committed ==
    \A id \in Ids :
        /\ orders[id].status = "none" => orders[id].filled = 0
        /\ orders[id].status # "none" => id < nextId /\ OrderOk(orders[id])

\* What a request holds at each stage: the order it inserts is its own and not
\* committed, the order it cancels or replaces is committed.
StageOk(c) ==
    LET t == client[c]
    IN  /\ t.pc = "idle" => t = NoRequest
        /\ t.pc \in PlacePCs => t.old = 0 /\ t.new # 0
        /\ t.pc \in CancelPCs => t.old # 0 /\ t.new = 0
        /\ t.pc = "cancel_lock" => t.want > 0
        /\ t.pc \in ModifyPCs => t.old # 0 /\ t.new # 0
        /\ t.new # 0 => /\ t.new < nextId /\ orders[t.new].status = "none"
                        /\ t.draft.status = "new" /\ t.draft.filled = 0 /\ OrderOk(t.draft)
        /\ t.old # 0 => orders[t.old].status # "none"

\* Ids are drawn once.
Requests ==
    /\ \A c \in Clients : StageOk(c)
    /\ \A c, d \in Clients : client[c].new # 0 /\ client[c].new = client[d].new => c = d

\* What a request moves is there, in a row it holds.
ReserveOk(c) ==
    client[c].shift # 0 =>
        /\ RequestRow(c) \in Rows /\ balLock[RequestRow(c)] = c
        /\ bal[RequestRow(c)].locked + client[c].shift >= 0
        /\ bal[RequestRow(c)].available - client[c].shift >= 0

Reserved == \A c \in Clients : ReserveOk(c)

\* The id is drawn, and whoever knows its terms knows these.
Listed(id, side, price) ==
    /\ id < nextId
    /\ orders[id].status # "none" => orders[id].side = side /\ orders[id].price = price
    /\ \A c \in Clients : client[c].new = id => client[c].draft.side = side /\ client[c].draft.price = price

\* A message to place an order.
PlaceOk(m) ==
    /\ Listed(m.id, m.side, m.price)
    /\ m.side = "buy" => <<m.user, "quote">> \in Rows

Waits(id) == \E i \in DOMAIN queue : queue[i].kind = "place" /\ queue[i].id = id
InHand(id) == worker.pc # "idle" /\ worker.msg.id = id
InBook(id) == \E e \in book : e.id = id

\* An order is queued, in the worker's hands or in the book, once, and with its
\* own terms.
Posted ==
    /\ \A i \in DOMAIN queue : queue[i].kind = "place" => PlaceOk(queue[i])
    /\ worker.pc # "idle" => worker.msg \in MessageRow /\ PlaceOk(worker.msg)
    /\ \A e \in book : Listed(e.id, e.side, e.price)

Once ==
    /\ \A i, j \in DOMAIN queue :
           queue[i].kind = "place" /\ queue[j].kind = "place" /\ queue[i].id = queue[j].id => i = j
    /\ \A id \in Ids : /\ Waits(id) => ~InHand(id) /\ ~InBook(id)
                       /\ InHand(id) => ~InBook(id)
    /\ \A c \in Clients : client[c].pc = "place_enqueue" =>
           ~Waits(client[c].new) /\ ~InHand(client[c].new) /\ ~InBook(client[c].new)
    /\ \A e, f \in book : e.id = f.id \/ e.seq = f.seq => e = f
    /\ \A e \in book : e.seq <= seq

\* A maker of the batch accepts the taker and the taker accepts it.
MakerOk(msg, f) ==
    /\ Listed(f.id, Opposite(msg.side), f.price)
    /\ f.qty > 0 /\ f.quote = f.price * f.qty
    /\ Crosses(msg.side, msg.price, f.price)

\* The batch: makers, each once, and the taker, who gets what they give.
BatchOk(w) ==
    LET n == Len(w.fills)
    IN  /\ n > 1
        /\ \A i \in 1 .. n - 1 : MakerOk(w.msg, w.fills[i])
        /\ \A i, j \in 1 .. n : w.fills[i].id = w.fills[j].id => i = j
        /\ w.fills[n].id = w.msg.id
        /\ w.fills[n].qty = SumFunctionOnSet([i \in 1 .. n - 1 |-> w.fills[i].qty], 1 .. n - 1)
        /\ w.fills[n].quote = SumFunctionOnSet([i \in 1 .. n - 1 |-> w.fills[i].quote], 1 .. n - 1)

Batch ==
    /\ worker.pc = "idle" => worker = IdleWorker
    /\ worker.pc \notin BatchPCs => worker.fills = <<>> /\ worker.k = 0
    /\ worker.pc \in BatchPCs => BatchOk(worker)
    /\ worker.pc \in {"users", "flush"} => worker.k = 0
    /\ worker.pc \in SettlePCs \cup {"orders"} =>
           /\ worker.k \in 1 .. Len(worker.fills)
           /\ \A i \in 1 .. Len(worker.fills) : orders[worker.fills[i].id].status # "none"
    /\ worker.pc = "commit" => worker.k = Len(worker.fills)
    /\ worker.pc = "refund" => worker.msg.side = "buy"

\* The rows the worker's transaction has changed are its own and stay covered.
Account ==
    /\ worker.pc \notin SettlePCs => worker.acc = Untouched
    /\ \A r \in Rows :
           /\ bal[r].locked + worker.acc[r].locked >= 0 /\ worker.acc[r].available >= 0
           /\ worker.acc[r] # [locked |-> 0, available |-> 0] => balLock[r] = Worker
    /\ worker.pc \in {"get", "settle"} /\ PayRow(PartyOrder) \in Rows => balLock[PayRow(PartyOrder)] = Worker
    /\ worker.pc = "settle" /\ GetRow(PartyOrder) \in Rows => balLock[GetRow(PartyOrder)] = Worker

\* What settling a party's fill does to a row.
Effect(f, o, r) ==
    (IF r = GetRow(o) THEN Gain(o, f.qty, f.quote) ELSE 0) - (IF r = PayRow(o) THEN Cost(o, f.qty, f.quote) ELSE 0)
Effects(r) == [i \in 1 .. Len(worker.fills) |-> Effect(worker.fills[i], orders[worker.fills[i].id], r)]
Settled == IF worker.pc = "commit" THEN Len(worker.fills) ELSE worker.k - 1

\* The worker's transaction has moved what the parties settled so far say.
Summed ==
    worker.pc \in SettlePCs =>
        \A r \in Rows : worker.acc[r].locked + worker.acc[r].available = SumFunctionOnSet(Effects(r), 1 .. Settled)

\* A committed trade is of two committed orders, within their limits.
TradeOk(t) ==
    LET tk == orders[t.taker]
        mk == orders[t.maker]
    IN  /\ tk.status # "none" /\ mk.status # "none" /\ tk.side = Opposite(mk.side)
        /\ Crosses(tk.side, tk.price, t.price) /\ t.price = mk.price

Traded == \A i \in DOMAIN trades : TradeOk(trades[i])

\* HoldingsMatchTrades for the rows that exist.
Held ==
    \A u \in Users, a \in {"base", "quote"} : <<u, a>> \in Rows =>
        bal[<<u, a>>].locked + bal[<<u, a>>].available - Start[<<u, a>>] = NetOfTrades(u, a)

Ind == Typed /\ Committed /\ Requests /\ Reserved /\ Posted /\ Once /\ Batch /\ Account /\ Summed /\ Traded /\ Held
-----------------------------------------------------------------------------
(* Makers, fills and their sums.                                           *)

\* A sum of numbers, one more of them.
LEMMA SumUpTo ==
    ASSUME NEW n \in Nat, NEW f, \A i \in 1 .. n + 1 : f[i] \in Int
    PROVE  SumFunctionOnSet(f, 1 .. n + 1) = SumFunctionOnSet(f, 1 .. n) + f[n + 1]
<1>1. IsFiniteSet(1 .. n + 1) /\ n + 1 \in 1 .. n + 1
  <2>1. 1 \in Int /\ n + 1 \in Int /\ n + 1 \in 1 .. n + 1
    OBVIOUS
  <2>2. IsFiniteSet(1 .. n + 1)
    BY ONLY <2>1, FS_Interval
  <2> QED
    BY ONLY <2>1, <2>2
<1>2. (1 .. n + 1) \ {n + 1} = 1 .. n
  OBVIOUS
<1>3. SumFunctionOnSet(f, 1 .. n) \in Int
  <2>1. IsFiniteSet(1 .. n)
    BY FS_Interval
  <2> QED
    BY <2>1, SumInt
<1>4. SumFunctionOnSet(f, 1 .. n + 1) = f[n + 1] + SumFunctionOnSet(f, (1 .. n + 1) \ {n + 1})
  BY <1>1, SumRemove
<1>5. SumFunctionOnSet(f, 1 .. n + 1) = f[n + 1] + SumFunctionOnSet(f, 1 .. n)
  BY <1>2, <1>4
<1>6. f[n + 1] \in Int
  BY <1>1
<1>7. PICK x, y : x = f[n + 1] /\ y = SumFunctionOnSet(f, 1 .. n)
  OBVIOUS
<1>8. x \in Int /\ y \in Int
  BY ONLY <1>3, <1>6, <1>7
<1>9. x + y = y + x
  BY ONLY <1>8
<1> QED
  BY ONLY <1>5, <1>7, <1>9

\* The elements up to the first that is not good are a prefix.
LEMMA LeadingIs ==
    ASSUME NEW A, NEW s \in Seq(A), NEW good, good \subseteq 1 .. Len(s)
    PROVE  \E n \in 0 .. Len(s) : /\ Leading(s, good) = SubSeq(s, 1, n)
                                  /\ 1 .. n \subseteq good /\ n + 1 \notin good
<1> DEFINE S == {n \in Nat : n + 1 \notin good}
<1>1. Len(s) \in Nat /\ Len(s) \in S
  <2>1. Len(s) \in Nat
    OBVIOUS
  <2> QED
    BY <2>1
<1>2. PICK n \in S : \A k \in S : ~ (k < n)
  <2>1. S \subseteq Nat /\ S # {}
    BY <1>1
  <2> QED
    BY <2>1, LeastNumber
<1>3. n \in 0 .. Len(s)
  BY <1>1, <1>2
<1>4. ASSUME NEW i \in 1 .. n
      PROVE  i \in good
  <2>1. i - 1 \in Nat /\ i - 1 < n /\ (i - 1) + 1 = i
    BY <1>3
  <2>2. i - 1 \notin S
    BY <1>2, <2>1
  <2> QED
    BY <2>1, <2>2
<1>5. 1 .. n \subseteq good /\ n + 1 \notin good
  BY <1>2, <1>4
<1> QED
  BY <1>3, <1>5 DEF Leading

\* A prefix of a sequence, by its elements.
LEMMA PrefixOf ==
    ASSUME NEW A, NEW s \in Seq(A), NEW n \in 0 .. Len(s)
    PROVE  /\ SubSeq(s, 1, n) \in Seq(A) /\ Len(SubSeq(s, 1, n)) = n
           /\ \A i \in 1 .. n : SubSeq(s, 1, n)[i] = s[i]
<1>1. Len(s) \in Nat /\ \A i \in 1 .. Len(s) : s[i] \in A
  OBVIOUS
<1>2. SubSeq(s, 1, n) = [i \in 1 .. n |-> s[i]]
  <2>1. SubSeq(s, 1, n) \in Seq(A) /\ Len(SubSeq(s, 1, n)) = n
    BY <1>1, SubSeqProperties
  <2>2. \A i \in 1 .. n : SubSeq(s, 1, n)[i] = s[i]
    BY <1>1, SubSeqProperties
  <2> QED
    BY <2>1, <2>2
<1> QED
  BY <1>1, <1>2, SubSeqProperties

Maker == [id : Ids, price : Nat, seq : Nat, qty : Nat \ {0}]

\* What the first n makers have.
Volumes(makers) == [i \in 1 .. Len(makers) |-> makers[i].qty]

\* The makers of a queue and their quantities.
LEMMA MakerAt ==
    ASSUME NEW makers \in Seq(Maker)
    PROVE  /\ Len(makers) \in Nat
           /\ \A i \in 1 .. Len(makers) : /\ makers[i] \in Maker /\ makers[i].qty \in Nat
                                          /\ Volumes(makers)[i] = makers[i].qty
<1>1. Len(makers) \in Nat /\ \A i \in 1 .. Len(makers) : makers[i] \in Maker
  OBVIOUS
<1>2. \A m \in Maker : m.qty \in Nat
  BY DEF Maker
<1> QED
  BY <1>1, <1>2 DEF Volumes

\* What the first n makers have is a sum of their quantities.
LEMMA VolumeIs ==
    ASSUME NEW makers \in Seq(Maker), NEW n \in 0 .. Len(makers)
    PROVE  /\ Volume(SubSeq(makers, 1, n)) = SumFunctionOnSet(Volumes(makers), 1 .. n)
           /\ SumFunctionOnSet(Volumes(makers), 1 .. n) \in Nat
<1> DEFINE s == SubSeq(makers, 1, n)
<1>1. s \in Seq(Maker) /\ Len(s) = n /\ \A i \in 1 .. n : s[i] = makers[i]
  BY PrefixOf
<1>2. IsFiniteSet(1 .. n) /\ \A i \in 1 .. n : Volumes(makers)[i] = makers[i].qty /\ makers[i].qty \in Nat
  <2>1. n \in Nat /\ n <= Len(makers) /\ Len(makers) \in Nat
    BY MakerAt
  <2>2. IsFiniteSet(1 .. n)
    BY <2>1, FS_Interval
  <2>3. 1 .. n \subseteq 1 .. Len(makers)
    BY <2>1
  <2> QED
    BY <2>2, <2>3, MakerAt
<1> DEFINE f == [i \in DOMAIN s |-> s[i].qty]
<1>3. DOMAIN s = 1 .. n
  BY <1>1
<1>4. \A i \in 1 .. n : f[i] = Volumes(makers)[i]
  BY <1>1, <1>2, <1>3
<1>5. Volume(s) = SumFunctionOnSet(f, 1 .. n)
  <2>1. DOMAIN f = 1 .. n
    BY <1>3
  <2> QED
    BY <2>1 DEF Volume, SumFunction
<1>6. SumFunctionOnSet(f, 1 .. n) = SumFunctionOnSet(Volumes(makers), 1 .. n)
  <2> HIDE DEF f
  <2> QED
    BY <1>2, <1>4, SumSame
<1>7. SumFunctionOnSet(Volumes(makers), 1 .. n) \in Nat
  BY <1>2, SumNat
<1> QED
  BY <1>5, <1>6, <1>7

\* What a maker gives, by what those before it have.
LEMMA FillIs ==
    ASSUME NEW makers \in Seq(Maker), NEW want \in Nat, NEW i \in 1 .. Len(makers)
    PROVE  LET v == SumFunctionOnSet(Volumes(makers), 1 .. i - 1)
               q == makers[i].qty
           IN  /\ Fills(makers, want)[i] = IF want <= v THEN 0 ELSE IF q <= want - v THEN q ELSE want - v
               /\ Fills(makers, want)[i] \in Nat /\ v \in Nat /\ q \in Nat
<1> DEFINE v == SumFunctionOnSet(Volumes(makers), 1 .. i - 1)
           q == makers[i].qty
<1>1. i - 1 \in 0 .. Len(makers) /\ q \in Nat
  BY MakerAt
<1>2. Volume(SubSeq(makers, 1, i - 1)) = v /\ v \in Nat
  BY <1>1, VolumeIs
<1>3. Fills(makers, want)[i] = Max({0, Min({q, want - v})})
  <2>1. i \in DOMAIN makers
    OBVIOUS
  <2>2. Fills(makers, want)[i] = Max({0, Min({q, want - Volume(SubSeq(makers, 1, i - 1))})})
    BY <2>1 DEF Fills
  <2> HIDE DEF v, q
  <2> QED
    BY ONLY <1>2, <2>2
<1> HIDE DEF v, q
<1>4. Min({q, want - v}) = (IF q <= want - v THEN q ELSE want - v) /\ Min({q, want - v}) \in Int
  BY <1>1, <1>2, SmallerOf
<1> DEFINE m == Min({q, want - v})
<1>5. Max({0, m}) = IF 0 >= m THEN 0 ELSE m
  <2>1. m \in Int
    BY <1>4
  <2> HIDE DEF m
  <2> QED
    BY <2>1, LargerOf
<1> QED
  BY <1>1, <1>2, <1>3, <1>4, <1>5 DEF v, q

\* All the fills together are what the makers have, or what the taker wants.
LEMMA FillsSum ==
    ASSUME NEW makers \in Seq(Maker), NEW want \in Nat, NEW n \in 0 .. Len(makers)
    PROVE  LET v == SumFunctionOnSet(Volumes(makers), 1 .. n)
           IN  SumFunctionOnSet(Fills(makers, want), 1 .. n) = IF want <= v THEN want ELSE v
<1> DEFINE V(k) == SumFunctionOnSet(Volumes(makers), 1 .. k)
           F(k) == SumFunctionOnSet(Fills(makers, want), 1 .. k)
           Bad == {k \in 0 .. Len(makers) : F(k) # IF want <= V(k) THEN want ELSE V(k)}
<1> SUFFICES ASSUME Bad # {}
             PROVE  FALSE
  OBVIOUS
<1>1. Bad \subseteq Nat
  OBVIOUS
<1>2. PICK k \in Bad : \A j \in Bad : ~ (j < k)
  <2> HIDE DEF Bad
  <2> QED
    BY <1>1, LeastNumber
<1>3. k \in 0 .. Len(makers) /\ Len(makers) \in Nat
  BY <1>2
<1>4. CASE k = 0
  <2>1. 1 .. k = {}
    BY <1>4
  <2>2. F(k) = 0 /\ V(k) = 0
    BY <2>1, SumEmpty
  <2> QED
    BY <1>2, <2>2
<1>5. CASE k # 0
  <2> DEFINE j == k - 1
             q == makers[k].qty
             g == Fills(makers, want)[k]
  <2>1. j \in 0 .. Len(makers) /\ j \in Nat /\ k = j + 1 /\ j < k /\ k \in 1 .. Len(makers)
    BY <1>3, <1>5
  <2>2. j \notin Bad
    BY <1>2, <2>1
  <2>3. F(j) = IF want <= V(j) THEN want ELSE V(j)
    BY <2>1, <2>2
  <2>4. V(j) \in Nat /\ q \in Nat /\ g = IF want <= V(j) THEN 0 ELSE IF q <= want - V(j) THEN q ELSE want - V(j)
    BY <2>1, FillIs
  <2>5. V(k) = V(j) + q
    <3>1. \A i \in 1 .. j + 1 : Volumes(makers)[i] \in Int
      BY <2>1, MakerAt
    <3>2. Volumes(makers)[k] = q
      BY <2>1, MakerAt
    <3> HIDE DEF q
    <3> QED
      BY <2>1, <3>1, <3>2, SumUpTo
  <2>6. F(k) = F(j) + g
    <3>1. \A i \in 1 .. j + 1 : Fills(makers, want)[i] \in Int
      BY <2>1, FillIs
    <3> QED
      BY <2>1, <3>1, SumUpTo
  <2>7. F(k) = IF want <= V(k) THEN want ELSE V(k)
    <3> HIDE DEF F, V, g, q, j
    <3> QED
      BY <2>3, <2>4, <2>5, <2>6
  <2> QED
    BY <1>2, <2>7
<1> QED
  BY <1>4, <1>5


-----------------------------------------------------------------------------
(* What every step keeps.                                                  *)

SameTerms(o, p) == o.user = p.user /\ o.side = p.side /\ o.price = p.price

\* Ids are only drawn, terms are never changed, and an order is committed by
\* the request that has drawn its id.
Steady ==
    /\ nextId \in Nat /\ nextId' \in Nat /\ nextId <= nextId'
    /\ \A id \in Ids : orders[id].status # "none" =>
           orders'[id].status # "none" /\ SameTerms(orders'[id], orders[id])
    /\ \A id \in Ids : orders[id].status = "none" /\ orders'[id].status # "none" =>
           \E c \in Clients : client[c].new = id /\ orders'[id] = client[c].draft
    /\ \A c \in Clients : \/ client'[c].new = 0
                          \/ client'[c].new = client[c].new /\ client'[c].draft = client[c].draft
                          \/ client'[c].new = nextId

\* Terms that are known stay the terms of the order.
LEMMA ListedLater ==
    ASSUME Steady, NEW id \in Ids, NEW side, NEW price, Listed(id, side, price)
    PROVE  Listed(id, side, price)'
<1>1. id \in Nat /\ id # 0 /\ id < nextId
  BY ExchangeAssumption DEF Listed, Ids
<1>2. id < nextId'
  BY <1>1 DEF Steady
<1>3. ASSUME orders'[id].status # "none"
      PROVE  orders'[id].side = side /\ orders'[id].price = price
  BY <1>3 DEF Steady, Listed, SameTerms
<1>4. ASSUME NEW c \in Clients, client'[c].new = id
      PROVE  client'[c].draft.side = side /\ client'[c].draft.price = price
  BY <1>1, <1>4 DEF Steady, Listed
<1> QED
  BY <1>2, <1>3, <1>4 DEF Listed

\* The part of a step that the queue, the book and the worker's message see.
PostFrame ==
    /\ book' \subseteq book /\ seq' = seq
    /\ queue' = queue \/ \E m \in MessageRow : m.kind # "place" /\ queue' = Append(queue, m)
    /\ worker'.pc # "idle" => worker.pc # "idle" /\ worker'.msg = worker.msg
    /\ \A c \in Clients : client'[c].pc = "place_enqueue" =>
           \/ client[c].pc = "place_enqueue" /\ client'[c].new = client[c].new
           \/ client'[c].new = nextId

\* The place messages that wait are those that waited.
LEMMA QueueAfter ==
    ASSUME TypedRedis, PostFrame
    PROVE  \A i \in DOMAIN queue' : queue'[i].kind = "place" =>
               i \in DOMAIN queue /\ queue'[i] = queue[i]
<1>1. CASE queue' = queue
  BY <1>1
<1>2. ASSUME NEW m \in MessageRow, m.kind # "place", queue' = Append(queue, m)
      PROVE  \A i \in DOMAIN queue' : queue'[i].kind = "place" =>
                 i \in DOMAIN queue /\ queue'[i] = queue[i]
  <2>1. queue \in Seq(MessageRow)
    BY DEF TypedRedis
  <2>2. /\ Len(queue') = Len(queue) + 1 /\ queue' \in Seq(MessageRow)
        /\ \A i \in 1 .. Len(queue) : queue'[i] = queue[i]
        /\ queue'[Len(queue) + 1] = m
    BY <1>2, <2>1, AppendProperties
  <2>3. Len(queue) \in Nat /\ DOMAIN queue = 1 .. Len(queue) /\ DOMAIN queue' = 1 .. Len(queue) + 1
    BY <2>1, <2>2, LenProperties
  <2> QED
    BY <1>2, <2>2, <2>3
<1> QED
  BY <1>1, <1>2 DEF PostFrame

\* The ids of the queue.
LEMMA MessageIds ==
    ASSUME TypedRedis
    PROVE  \A i \in DOMAIN queue : queue[i] \in MessageRow /\ queue[i].id \in Ids
<1>1. queue \in Seq(MessageRow)
  BY DEF TypedRedis
<1>2. \A i \in DOMAIN queue : queue[i] \in MessageRow
  BY <1>1
<1> QED
  BY <1>2 DEF MessageRow

\* Nobody has heard of the next id.
LEMMA NextIdFree ==
    ASSUME Posted, TypedRedis, nextId \in Nat
    PROVE  ~Waits(nextId) /\ ~InHand(nextId) /\ ~InBook(nextId)
<1>1. ~Waits(nextId)
  <2> SUFFICES ASSUME NEW i \in DOMAIN queue, queue[i].kind = "place", queue[i].id = nextId
               PROVE  FALSE
    BY DEF Waits
  <2>1. PlaceOk(queue[i])
    BY DEF Posted
  <2> QED
    BY <2>1 DEF PlaceOk, Listed
<1>2. ~InHand(nextId)
  BY DEF Posted, InHand, PlaceOk, Listed
<1>3. ~InBook(nextId)
  BY DEF Posted, InBook, Listed
<1> QED
  BY <1>1, <1>2, <1>3

\* A step that at most removes entries and adds a message of another kind
\* keeps every order in one place.
LEMMA PostKept ==
    ASSUME TypedRedis, Steady, PostFrame, Posted, Once
    PROVE  Posted' /\ Once'
<1>1. \A i \in DOMAIN queue' : queue'[i].kind = "place" => i \in DOMAIN queue /\ queue'[i] = queue[i]
  BY QueueAfter
<1>2. ASSUME NEW i \in DOMAIN queue', queue'[i].kind = "place"
      PROVE  PlaceOk(queue[i])'
  <2>1. i \in DOMAIN queue /\ queue'[i] = queue[i] /\ queue[i].id \in Ids
    BY <1>1, <1>2, MessageIds
  <2>2. PlaceOk(queue[i])
    BY <1>2, <2>1 DEF Posted
  <2>3. PICK m : m = queue[i]
    OBVIOUS
  <2>4. PlaceOk(m)'
    BY <2>1, <2>2, <2>3, ListedLater DEF PlaceOk
  <2> QED
    BY <2>1, <2>3, <2>4 DEF PlaceOk, Listed
<1>3. ASSUME worker'.pc # "idle"
      PROVE  worker'.msg \in MessageRow /\ PlaceOk(worker.msg)'
  <2>1. worker.pc # "idle" /\ worker'.msg = worker.msg /\ worker.msg \in MessageRow /\ PlaceOk(worker.msg)
    BY <1>3 DEF PostFrame, Posted
  <2>2. PICK m : m = worker.msg
    OBVIOUS
  <2>3. m.id \in Ids
    BY <2>1, <2>2 DEF MessageRow
  <2>4. PlaceOk(m)'
    BY <2>1, <2>2, <2>3, ListedLater DEF PlaceOk
  <2> QED
    BY <2>1, <2>2, <2>4 DEF PlaceOk, Listed
<1>4. ASSUME NEW e \in book'
      PROVE  Listed(e.id, e.side, e.price)'
  <2>1. e \in book /\ e \in BookRow
    BY DEF PostFrame, TypedRedis
  <2>2. e.id \in Ids /\ Listed(e.id, e.side, e.price)
    BY <2>1 DEF Posted, BookRow
  <2>3. PICK f : f = e
    OBVIOUS
  <2>4. Listed(f.id, f.side, f.price)'
    BY <2>2, <2>3, ListedLater
  <2> QED
    BY <2>3, <2>4 DEF Listed
<1>5. \A id : Waits(id)' => Waits(id)
  BY <1>1 DEF Waits
<1>6. \A id : InHand(id)' => InHand(id)
  BY DEF InHand, PostFrame
<1>7. \A id : InBook(id)' => InBook(id)
  BY DEF InBook, PostFrame
<1>8. Posted'
  BY <1>2, <1>3, <1>4 DEF Posted
<1>9. \A i, j \in DOMAIN queue' :
         queue'[i].kind = "place" /\ queue'[j].kind = "place" /\ queue'[i].id = queue'[j].id => i = j
  BY <1>1 DEF Once
<1>10. \A id \in Ids : (Waits(id)' => ~InHand(id)' /\ ~InBook(id)') /\ (InHand(id)' => ~InBook(id)')
  BY <1>5, <1>6, <1>7 DEF Once
<1>11. ASSUME NEW c \in Clients, client'[c].pc = "place_enqueue"
       PROVE  (~Waits(client[c].new) /\ ~InHand(client[c].new) /\ ~InBook(client[c].new))'
  <2>0. PICK n : n = client'[c].new
    OBVIOUS
  <2>1. n = nextId => ~Waits(n) /\ ~InHand(n) /\ ~InBook(n)
    BY NextIdFree DEF Steady
  <2>2. n = client[c].new /\ client[c].pc = "place_enqueue" => ~Waits(n) /\ ~InHand(n) /\ ~InBook(n)
    BY DEF Once
  <2>3. ~Waits(n) /\ ~InHand(n) /\ ~InBook(n)
    BY <1>11, <2>0, <2>1, <2>2 DEF PostFrame
  <2>4. ~Waits(n)' /\ ~InHand(n)' /\ ~InBook(n)'
    BY <2>3, <1>5, <1>6, <1>7
  <2> QED
    BY <2>0, <2>4 DEF Waits, InHand, InBook
<1>12. (\A e, f \in book' : e.id = f.id \/ e.seq = f.seq => e = f) /\ (\A e \in book' : e.seq <= seq')
  BY DEF Once, PostFrame
<1>13. Once'
  BY <1>9, <1>10, <1>11, <1>12 DEF Once
<1> QED
  BY <1>8, <1>13

-----------------------------------------------------------------------------
(* What a request's step keeps of everybody else.                          *)

Sign(o, u, a) == IF o.user # u THEN 0 ELSE IF GetAsset(o.side) = a THEN 1 ELSE -1
Amount(t, a) == IF a = "base" THEN t.qty ELSE t.price * t.qty

\* What the trades say does not change with the orders: terms are for ever.
LEMMA NetKept ==
    ASSUME trades' = trades, trades \in Seq(Trade), Traded, Steady, NEW u, NEW a
    PROVE  NetOfTrades(u, a)' = NetOfTrades(u, a)
<1> DEFINE f == [i \in DOMAIN trades |->
                    (Sign(orders[trades[i].taker], u, a) + Sign(orders[trades[i].maker], u, a)) * Amount(trades[i], a)]
           g == [i \in DOMAIN trades |->
                    (Sign(orders'[trades[i].taker], u, a) + Sign(orders'[trades[i].maker], u, a)) * Amount(trades[i], a)]
<1>1. NetOfTrades(u, a) = SumFunction(f)
  BY DEF NetOfTrades, Sign, Amount
<1>2. NetOfTrades(u, a)' = SumFunction(g)
  BY DEF NetOfTrades, Sign, Amount
<1>3. ASSUME NEW i \in DOMAIN trades
      PROVE  f[i] = g[i]
  <2>1. trades[i] \in Trade
    OBVIOUS
  <2>2. trades[i].taker \in Ids /\ trades[i].maker \in Ids
    BY <2>1 DEF Trade
  <2>3. orders[trades[i].taker].status # "none" /\ orders[trades[i].maker].status # "none"
    BY DEF Traded, TradeOk
  <2>4. /\ SameTerms(orders'[trades[i].taker], orders[trades[i].taker])
        /\ SameTerms(orders'[trades[i].maker], orders[trades[i].maker])
    BY <2>2, <2>3 DEF Steady
  <2> QED
    BY <2>4 DEF SameTerms, Sign
<1>4. f = g
  BY <1>3
<1> QED
  BY <1>1, <1>2, <1>4

\* Committed trades stay within the limits of their orders.
LEMMA TradedKept ==
    ASSUME trades' = trades, trades \in Seq(Trade), Traded, Steady
    PROVE  Traded'
<1> SUFFICES ASSUME NEW i \in DOMAIN trades
             PROVE  TradeOk(trades[i])'
  BY DEF Traded
<1>1. trades[i] \in Trade /\ TradeOk(trades[i])
  BY DEF Traded
<1>2. trades[i].taker \in Ids /\ trades[i].maker \in Ids
  BY <1>1 DEF Trade
<1> QED
  BY <1>1, <1>2 DEF TradeOk, Steady, SameTerms

\* A step that only moves funds within rows keeps the accounts.
LEMMA HeldKept ==
    ASSUME TypedPg, TypedPg', trades' = trades, trades \in Seq(Trade), Traded, Steady, Held,
           \A r \in Rows : bal'[r].locked + bal'[r].available = bal[r].locked + bal[r].available
    PROVE  Held'
<1> SUFFICES ASSUME NEW u \in Users, NEW a \in {"base", "quote"}, <<u, a>> \in Rows
             PROVE  bal'[<<u, a>>].locked + bal'[<<u, a>>].available - Start[<<u, a>>] = NetOfTrades(u, a)'
  BY DEF Held
<1>1. NetOfTrades(u, a)' = NetOfTrades(u, a)
  BY NetKept
<1>2. bal[<<u, a>>].locked + bal[<<u, a>>].available - Start[<<u, a>>] = NetOfTrades(u, a)
  BY DEF Held
<1>3. bal'[<<u, a>>].locked + bal'[<<u, a>>].available = bal[<<u, a>>].locked + bal[<<u, a>>].available
  OBVIOUS
<1>4. /\ bal[<<u, a>>].locked \in Nat /\ bal[<<u, a>>].available \in Nat
      /\ bal'[<<u, a>>].locked \in Nat /\ bal'[<<u, a>>].available \in Nat
  BY DEF TypedPg
<1>5. Start[<<u, a>>] \in Nat
  BY ExchangeAssumption DEF Rows
<1>6. PICK l, v, m, w, b, n, o :
        /\ l = bal[<<u, a>>].locked /\ v = bal[<<u, a>>].available
        /\ m = bal'[<<u, a>>].locked /\ w = bal'[<<u, a>>].available
        /\ b = Start[<<u, a>>] /\ n = NetOfTrades(u, a) /\ o = NetOfTrades(u, a)'
  OBVIOUS
<1>7. l \in Nat /\ v \in Nat /\ m \in Nat /\ w \in Nat /\ b \in Nat
  BY ONLY <1>4, <1>5, <1>6
<1>8. m + w = l + v /\ l + v - b = n /\ o = n
  BY ONLY <1>1, <1>2, <1>3, <1>6
<1>9. m + w - b = o
  BY ONLY <1>7, <1>8
<1> QED
  BY ONLY <1>6, <1>9

\* The worker's transaction when the worker does not move.
LEMMA BatchKept ==
    ASSUME worker' = worker, worker \in WorkerState, Steady, Batch
    PROVE  Batch'
<1>1. ASSUME worker.pc \in BatchPCs
      PROVE  BatchOk(worker)'
  <2>1. BatchOk(worker)
    BY <1>1 DEF Batch
  <2>2. PICK w : w = worker
    OBVIOUS
  <2>3. w.fills \in Seq(Fill) /\ BatchOk(w)
    BY <2>1, <2>2 DEF WorkerState
  <2>4. ASSUME NEW i \in 1 .. Len(w.fills) - 1
        PROVE  MakerOk(w.msg, w.fills[i])'
    <3>1. w.fills[i] \in Fill
      BY <2>3
    <3>2. w.fills[i].id \in Ids
      BY <3>1 DEF Fill
    <3>3. MakerOk(w.msg, w.fills[i])
      BY <2>3 DEF BatchOk
    <3> QED
      BY <3>2, <3>3, ListedLater DEF MakerOk
  <2>5. BatchOk(w)'
    <3> HIDE DEF MakerOk
    <3> QED
      BY <2>3, <2>4 DEF BatchOk
  <2>6. worker' = w
    BY <2>2
  <2> QED
    BY ONLY <2>5, <2>6, Zenon DEF BatchOk, MakerOk, Listed
<1>2. ASSUME worker.pc \in SettlePCs \cup {"orders"}, NEW i \in 1 .. Len(worker.fills)
      PROVE  orders'[worker.fills[i].id].status # "none"
  <2>1. worker.fills \in Seq(Fill)
    BY DEF WorkerState
  <2>2. worker.fills[i] \in Fill
    BY <2>1
  <2>3. worker.fills[i].id \in Ids
    BY <2>2 DEF Fill
  <2> QED
    BY <1>2, <2>3 DEF Batch, Steady
<1> QED
  BY <1>1, <1>2 DEF Batch

\* The parties of the batch keep their terms.
LEMMA PartyKept ==
    ASSUME worker' = worker, worker \in WorkerState, Steady, Batch, worker.pc \in SettlePCs,
           NEW i \in 1 .. Len(worker.fills)
    PROVE  SameTerms(orders'[worker.fills[i].id], orders[worker.fills[i].id])
<1>1. worker.fills \in Seq(Fill)
  BY DEF WorkerState
<1>2. worker.fills[i] \in Fill
  BY <1>1
<1>3. worker.fills[i].id \in Ids
  BY <1>2 DEF Fill
<1>4. orders[worker.fills[i].id].status # "none"
  BY DEF Batch
<1> QED
  BY <1>3, <1>4 DEF Steady

\* Nobody touches a row the worker holds.
LEMMA AccountKept ==
    ASSUME worker' = worker, worker \in WorkerState, Steady, Batch, Account,
           \A r \in Rows : balLock[r] = Worker => balLock'[r] = Worker /\ bal'[r] = bal[r],
           \A r \in Rows : bal'[r].locked \in Nat
    PROVE  Account'
<1>1. worker.pc \notin SettlePCs => worker.acc = Untouched
  BY DEF Account
<1>2. ASSUME NEW r \in Rows
      PROVE  /\ bal'[r].locked + worker.acc[r].locked >= 0 /\ worker.acc[r].available >= 0
             /\ worker.acc[r] # [locked |-> 0, available |-> 0] => balLock'[r] = Worker
  <2>1. CASE worker.acc[r] = [locked |-> 0, available |-> 0]
    BY <2>1
  <2>2. CASE worker.acc[r] # [locked |-> 0, available |-> 0]
    BY <2>2 DEF Account
  <2> QED
    BY <2>1, <2>2
<1>3. ASSUME worker.pc \in {"get", "settle"}
      PROVE  /\ PayRow(PartyOrder)' = PayRow(PartyOrder) /\ GetRow(PartyOrder)' = GetRow(PartyOrder)
  <2>1. worker.pc \in SettlePCs /\ worker.k \in 1 .. Len(worker.fills)
    BY <1>3 DEF SettlePCs, Batch
  <2>2. SameTerms(orders'[worker.fills[worker.k].id], orders[worker.fills[worker.k].id])
    BY <2>1, PartyKept
  <2> QED
    BY <2>2 DEF SameTerms, PartyOrder, Party, PayRow, GetRow
<1>4. worker.pc \in {"get", "settle"} /\ PayRow(PartyOrder)' \in Rows => balLock'[PayRow(PartyOrder)'] = Worker
  BY <1>3 DEF Account
<1>5. worker.pc = "settle" /\ GetRow(PartyOrder)' \in Rows => balLock'[GetRow(PartyOrder)'] = Worker
  BY <1>3 DEF Account
<1> QED
  BY <1>1, <1>2, <1>4, <1>5 DEF Account, Untouched

\* What the worker has settled is not disturbed.
LEMMA SummedKept ==
    ASSUME worker' = worker, worker \in WorkerState, Steady, Batch, Summed
    PROVE  Summed'
<1> SUFFICES ASSUME worker.pc \in SettlePCs, NEW r \in Rows
             PROVE  worker.acc[r].locked + worker.acc[r].available = SumFunctionOnSet(Effects(r)', 1 .. Settled)
  BY DEF Summed, Settled
<1>1. ASSUME NEW i \in 1 .. Len(worker.fills)
      PROVE  Effect(worker.fills[i], orders[worker.fills[i].id], r)' = Effect(worker.fills[i], orders[worker.fills[i].id], r)
  <2>1. SameTerms(orders'[worker.fills[i].id], orders[worker.fills[i].id])
    BY PartyKept
  <2> QED
    BY <2>1 DEF SameTerms, Effect, PayRow, GetRow, Cost, Gain
<1>2. Effects(r)' = Effects(r)
  BY <1>1 DEF Effects
<1> QED
  BY <1>2 DEF Summed

\* What a step of request c may change.
ClientFrame(c) ==
    /\ worker' = worker /\ trades' = trades
    /\ \/ nextId' = nextId /\ (client'[c].new = 0 \/ (client'[c].new = client[c].new /\ client'[c].draft = client[c].draft))
       \/ nextId' = nextId + 1 /\ client'[c].new = nextId
    /\ \A d \in Clients \ {c} : client'[d] = client[d]
    /\ \A id \in Ids : orders[id].status # "none" =>
           orders'[id].status # "none" /\ SameTerms(orders'[id], orders[id])
    /\ \A id \in Ids : orders[id].status = "none" =>
           orders'[id] = orders[id] \/ (id = client[c].new /\ orders'[id] = client[c].draft)
    /\ \A r \in Rows : balLock[r] \notin {NoOne, c} => balLock'[r] = balLock[r]
    /\ \A r \in Rows : balLock[r] # c => bal'[r] = bal[r]
    /\ \A r \in Rows : bal'[r].locked + bal'[r].available = bal[r].locked + bal[r].available

\* A step of a request draws ids and changes no terms.
LEMMA ClientSteady ==
    ASSUME TypedActors, NEW c \in Clients, ClientFrame(c)
    PROVE  Steady
<1>1. nextId \in Nat /\ nextId' \in Nat /\ nextId <= nextId'
  <2>1. nextId \in Nat
    BY ExchangeAssumption DEF TypedActors
  <2> QED
    BY <2>1 DEF ClientFrame
<1>2. ASSUME NEW d \in Clients
      PROVE  \/ client'[d].new = 0
             \/ client'[d].new = client[d].new /\ client'[d].draft = client[d].draft
             \/ client'[d].new = nextId
  BY DEF ClientFrame
<1>3. ASSUME NEW id \in Ids, orders[id].status = "none", orders'[id].status # "none"
      PROVE  \E d \in Clients : client[d].new = id /\ orders'[id] = client[d].draft
  BY <1>3 DEF ClientFrame
<1>4. \A id \in Ids : orders[id].status # "none" =>
          orders'[id].status # "none" /\ SameTerms(orders'[id], orders[id])
  BY DEF ClientFrame
<1> QED
  BY <1>1, <1>2, <1>3, <1>4 DEF Steady

\* The orders stay in order when a request takes a step.
LEMMA ClientCommitted ==
    ASSUME Typed, Committed, Requests, NEW c \in Clients, ClientFrame(c)
    PROVE  Committed'
<1>0. Steady
  BY ClientSteady DEF Typed
<1> SUFFICES ASSUME NEW id \in Ids
             PROVE  /\ orders'[id].status = "none" => orders'[id].filled = 0
                    /\ orders'[id].status # "none" => id < nextId' /\ OrderOk(orders[id])'
  BY DEF Committed
<1>1. id \in Nat /\ id # 0
  BY ExchangeAssumption DEF Ids
<1>2. CASE orders[id].status # "none"
  <2>1. orders'[id].status # "none" /\ SameTerms(orders'[id], orders[id])
    BY <1>2 DEF ClientFrame
  <2>2. id < nextId /\ OrderOk(orders[id])
    BY <1>2 DEF Committed
  <2>3. OrderOk(orders[id])'
    BY <2>1, <2>2 DEF OrderOk, PayRow, SameTerms
  <2> QED
    BY <1>0, <1>1, <2>1, <2>2, <2>3 DEF Steady
<1>3. CASE orders[id].status = "none" /\ orders'[id] = orders[id]
  BY <1>3 DEF Committed
<1>4. CASE id = client[c].new /\ orders'[id] = client[c].draft
  <2>1. StageOk(c)
    BY DEF Requests
  <2>2. id < nextId /\ client[c].draft.status = "new" /\ OrderOk(client[c].draft)
    BY <1>1, <1>4, <2>1 DEF StageOk
  <2>3. OrderOk(orders[id])'
    BY <1>4, <2>2 DEF OrderOk, PayRow
  <2> QED
    BY <1>0, <1>1, <1>4, <2>2, <2>3 DEF Steady
<1> QED
  BY <1>2, <1>3, <1>4 DEF ClientFrame

\* The other requests do not notice.
LEMMA OthersKept ==
    ASSUME Typed, Requests, Reserved, NEW c \in Clients, ClientFrame(c), NEW d \in Clients, d # c
    PROVE  StageOk(d)' /\ ReserveOk(d)'
<1>0. Steady
  BY ClientSteady DEF Typed
<1>1. client'[d] = client[d]
  BY DEF ClientFrame
<1>2. StageOk(d) /\ ReserveOk(d)
  BY DEF Requests, Reserved
<1>3. client[d] \in Request
  BY DEF Typed, TypedActors
<1>4. client[d].old \in 0 .. MaxOrders /\ client[d].new \in 0 .. MaxOrders
  BY <1>3 DEF Request
<1>5. (client[d].old # 0 => client[d].old \in Ids) /\ (client[d].new # 0 => client[d].new \in Ids)
  BY <1>4, ExchangeAssumption DEF Ids
<1>6. client[d].old # 0 => /\ orders'[client[d].old].status # "none"
                           /\ SameTerms(orders'[client[d].old], orders[client[d].old])
  BY <1>2, <1>5 DEF StageOk, ClientFrame
<1>7. ASSUME client[d].new # 0
      PROVE  orders'[client[d].new].status = "none" /\ client[d].new < nextId'
  <2>1. orders[client[d].new].status = "none" /\ client[d].new < nextId
    BY <1>2, <1>7 DEF StageOk
  <2>2. client[d].new # client[c].new
    BY <1>7 DEF Requests
  <2>3. orders'[client[d].new] = orders[client[d].new]
    BY <1>5, <1>7, <2>1, <2>2 DEF ClientFrame
  <2>4. client[d].new \in Nat
    BY <1>4
  <2> QED
    BY <1>0, <2>1, <2>3, <2>4 DEF Steady
<1>8. StageOk(d)'
  <2>1. PICK t : t = client[d]
    OBVIOUS
  <2>2. /\ t.pc = "idle" => t = NoRequest
        /\ t.pc \in PlacePCs => t.old = 0 /\ t.new # 0
        /\ t.pc \in CancelPCs => t.old # 0 /\ t.new = 0
        /\ t.pc = "cancel_lock" => t.want > 0
        /\ t.pc \in ModifyPCs => t.old # 0 /\ t.new # 0
        /\ t.new # 0 => t.draft.status = "new" /\ t.draft.filled = 0 /\ OrderOk(t.draft)
    BY <1>2, <2>1 DEF StageOk
  <2>3. t = client'[d]
    BY <1>1, <2>1
  <2> HIDE DEF OrderOk
  <2> QED
    BY <1>6, <1>7, <2>1, <2>2, <2>3 DEF StageOk, OrderOk, PayRow
<1>9. ASSUME client[d].shift # 0
      PROVE  /\ RequestRow(d)' = RequestRow(d) /\ RequestRow(d) \in Rows
             /\ balLock'[RequestRow(d)] = d /\ bal'[RequestRow(d)] = bal[RequestRow(d)]
  <2>1. RequestRow(d) \in Rows /\ balLock[RequestRow(d)] = d
    BY <1>2, <1>9 DEF ReserveOk
  <2>2. RequestRow(d)' = RequestRow(d)
    BY <1>1, <1>6 DEF RequestRow, PayRow, SameTerms
  <2>3. d # NoOne
    BY ExchangeAssumption
  <2> QED
    BY <2>1, <2>2, <2>3 DEF ClientFrame
<1>10. ReserveOk(d)'
  BY <1>1, <1>2, <1>9 DEF ReserveOk
<1> QED
  BY <1>8, <1>10

\* What is left to show of a request's step: its own stage and what it reserves.
LEMMA ClientStepPosting ==
    ASSUME Ind, NEW c \in Clients, ClientFrame(c), Typed', StageOk(c)', ReserveOk(c)', Posted', Once'
    PROVE  Ind'
<1> USE DEF Ind
<1>1. Steady
  BY ClientSteady DEF Typed
<1>2. Committed'
  BY ClientCommitted
<1>3. Requests'
  <2>1. \A d \in Clients : StageOk(d)'
    BY OthersKept
  <2>2. ASSUME NEW d \in Clients, NEW e \in Clients, client'[d].new # 0, client'[d].new = client'[e].new
        PROVE  d = e
    <3>1. \A x \in Clients : client[x].new # 0 => client[x].new < nextId
      BY DEF Requests, StageOk
    <3>2. \A x \in Clients : client[x].new # nextId
      <4>1. nextId \in Nat /\ nextId # 0
        BY ExchangeAssumption DEF Typed, TypedActors
      <4> QED
        BY <3>1, <4>1
    <3>3. client'[c].new = 0 \/ client'[c].new = client[c].new \/ client'[c].new = nextId
      BY DEF ClientFrame
    <3>4. \A x \in Clients \ {c} : client'[x].new = client[x].new
      BY DEF ClientFrame
    <3>5. \A x, y \in Clients : client[x].new # 0 /\ client[x].new = client[y].new => x = y
      BY DEF Requests
    <3> HIDE DEF Ind
    <3> QED
      BY <2>2, <3>2, <3>3, <3>4, <3>5
  <2> QED
    BY <2>1, <2>2 DEF Requests
<1>4. Reserved'
  BY OthersKept DEF Reserved
<1>5. worker' = worker /\ worker \in WorkerState /\ trades' = trades /\ trades \in Seq(Trade)
  BY DEF ClientFrame, Typed, TypedActors, TypedPg
<1>6. Batch' /\ Summed'
  BY <1>1, <1>5, BatchKept, SummedKept
<1>7. Account'
  <2>1. ASSUME NEW r \in Rows, balLock[r] = Worker
        PROVE  balLock'[r] = Worker /\ bal'[r] = bal[r]
    BY <2>1, ExchangeAssumption DEF ClientFrame
  <2>2. \A r \in Rows : bal'[r].locked \in Nat
    BY DEF Typed, TypedPg
  <2> QED
    BY <1>1, <1>5, <2>1, <2>2, AccountKept
<1>8. Traded'
  BY <1>1, <1>5, TradedKept
<1>9. Held'
  <2>1. \A r \in Rows : bal'[r].locked + bal'[r].available = bal[r].locked + bal[r].available
    BY DEF ClientFrame
  <2> QED
    BY <1>1, <1>5, <2>1, HeldKept DEF Typed
<1> QED
  BY <1>2, <1>3, <1>4, <1>5, <1>6, <1>7, <1>8, <1>9

\* The same where the queue gets no new order.
LEMMA ClientStep ==
    ASSUME Ind, NEW c \in Clients, ClientFrame(c), PostFrame, Typed', StageOk(c)', ReserveOk(c)'
    PROVE  Ind'
<1>1. Steady
  BY ClientSteady DEF Ind, Typed
<1>2. Posted' /\ Once'
  BY <1>1, PostKept DEF Ind, Typed
<1> QED
  BY <1>2, ClientStepPosting

-----------------------------------------------------------------------------
(* The other side of the book.                                             *)

Rest(side) == {e \in book : e.side = Opposite(side) /\ hash[e.id] > 0}
MakerOf(e) == [id |-> e.id, price |-> e.price, seq |-> e.seq, qty |-> hash[e.id]]
Makers(side) == {MakerOf(e) : e \in Rest(side)}

\* The entries of the book a taker may meet.
LEMMA MakersAre ==
    ASSUME TypedRedis, Once, NEW side
    PROVE  /\ IsFiniteSet(Makers(side)) /\ Makers(side) \subseteq Maker
           /\ \A m \in Makers(side) : \E e \in book : e.side = Opposite(side) /\ e.id = m.id /\ e.price = m.price
           /\ \A m, n \in Makers(side) : m.id = n.id \/ m.seq = n.seq => m = n
<1>1. Rest(side) \subseteq book /\ IsFiniteSet(Rest(side))
  <2>1. Rest(side) \subseteq book /\ IsFiniteSet(book)
    BY DEF Rest, TypedRedis
  <2> QED
    BY <2>1, FS_Subset
<1>2. IsFiniteSet(Makers(side))
  <2> DEFINE f == [e \in Rest(side) |-> MakerOf(e)]
  <2>1. f \in Surjection(Rest(side), Makers(side))
    BY DEF Surjection, Makers
  <2> QED
    BY <1>1, <2>1, FS_Surjection
<1>3. ASSUME NEW e \in Rest(side)
      PROVE  /\ MakerOf(e) \in Maker /\ MakerOf(e).id = e.id /\ MakerOf(e).price = e.price /\ MakerOf(e).seq = e.seq
             /\ e \in book /\ e.side = Opposite(side)
  <2>1. e \in BookRow /\ hash[e.id] > 0 /\ e \in book /\ e.side = Opposite(side)
    BY DEF Rest, TypedRedis
  <2>2. e.id \in Ids /\ e.price \in Nat /\ e.seq \in Nat
    BY <2>1 DEF BookRow
  <2>3. hash[e.id] \in Nat \ {0}
    BY <2>1, <2>2 DEF TypedRedis
  <2> QED
    BY <2>1, <2>2, <2>3 DEF MakerOf, Maker
<1>4. ASSUME NEW m \in Makers(side), NEW n \in Makers(side), m.id = n.id \/ m.seq = n.seq
      PROVE  m = n
  <2>1. PICK e \in Rest(side) : m = MakerOf(e)
    BY DEF Makers
  <2>2. PICK f \in Rest(side) : n = MakerOf(f)
    BY DEF Makers
  <2>3. e.id = f.id \/ e.seq = f.seq
    BY <1>3, <1>4, <2>1, <2>2
  <2>4. e = f
    BY <1>3, <2>3 DEF Once
  <2> QED
    BY <2>1, <2>2, <2>4
<1>5. ASSUME NEW m \in Makers(side)
      PROVE  m \in Maker /\ \E e \in book : e.side = Opposite(side) /\ e.id = m.id /\ e.price = m.price
  BY <1>3 DEF Makers
<1> QED
  BY <1>2, <1>4, <1>5

\* The loaded makers: entries of the book, each once.
LEMMA OppositeIs ==
    ASSUME TypedRedis, Once, NEW side
    PROVE  /\ OppositeOrders(side) \in Seq(Maker)
           /\ \A i \in 1 .. Len(OppositeOrders(side)) : \E e \in book :
                  /\ e.side = Opposite(side) /\ e.id = OppositeOrders(side)[i].id
                  /\ e.price = OppositeOrders(side)[i].price
           /\ \A i, j \in 1 .. Len(OppositeOrders(side)) :
                  OppositeOrders(side)[i].id = OppositeOrders(side)[j].id => i = j
<1> DEFINE M == Makers(side)
           B(a, b) == Before(Opposite(side), a, b)
           R == {p \in M \X M : B(p[1], p[2])}
           Good(s) == \A i, j \in DOMAIN s : i < j => B(s[i], s[j])
           S == [1 .. Cardinality(M) -> M]
           opp == OppositeOrders(side)
<1>1. opp = CHOOSE s \in S : Good(s)
  BY DEF OppositeOrders, Makers, Rest, MakerOf
<1>2. /\ IsFiniteSet(M) /\ M \subseteq Maker
      /\ \A m, n \in M : m.id = n.id \/ m.seq = n.seq => m = n
      /\ \A m \in M : \E e \in book : e.side = Opposite(side) /\ e.id = m.id /\ e.price = m.price
  BY MakersAre
<1>3. \A m \in M : m.price \in Nat /\ m.seq \in Nat
  BY <1>2 DEF Maker
<1>4. \A a, b \in M : <<a, b>> \in R <=> B(a, b)
  OBVIOUS
<1> HIDE DEF M
<1>5. \A a, b \in M : a # b => B(a, b) \/ B(b, a)
  BY <1>2, <1>3 DEF Before, Better, Opposite
<1>6. \A a, b, c \in M : B(a, b) /\ B(b, c) => B(a, c)
  BY <1>3 DEF Before, Better, Opposite
<1>7. \A a \in M : ~B(a, a)
  BY <1>3 DEF Before, Better, Opposite
<1> HIDE DEF B
<1>8. StrictOrder(R, M)
  <2> HIDE DEF R
  <2> QED
    BY <1>4, <1>5, <1>6 DEF StrictOrder
<1>9. \E s \in S : InOrder(s, R)
  <2> HIDE DEF R
  <2> QED
    BY <1>2, <1>8, CanBeListed
<1>10. \E s \in S : Good(s)
  <2>1. PICK s \in S : InOrder(s, R)
    BY <1>9
  <2>2. Good(s)
    BY <2>1 DEF InOrder
  <2> QED
    BY <2>2
<1>11. opp \in S /\ Good(opp)
  <2> HIDE DEF Good, S, opp
  <2> QED
    BY <1>1, <1>10
<1>12. Cardinality(M) \in Nat
  BY <1>2, FS_CardinalityType
<1> HIDE DEF opp
<1>13. opp \in Seq(Maker) /\ Len(opp) = Cardinality(M) /\ \A i \in 1 .. Len(opp) : opp[i] \in M
  <2> DEFINE n == Cardinality(M)
  <2> HIDE DEF n
  <2>1. n \in Nat /\ opp \in [1 .. n -> M]
    BY <1>11, <1>12 DEF n
  <2>2. opp \in [1 .. n -> Maker] /\ \A i \in 1 .. n : opp[i] \in M
    BY <1>2, <2>1
  <2>3. opp \in Seq(Maker) /\ Len(opp) = n
    BY <2>1, <2>2
  <2> QED
    BY <2>2, <2>3 DEF n
<1>14. ASSUME NEW i \in 1 .. Len(opp), NEW j \in 1 .. Len(opp), opp[i].id = opp[j].id
       PROVE  i = j
  <2>1. opp[i] = opp[j] /\ opp[i] \in M
    BY <1>2, <1>13, <1>14
  <2>2. i \in DOMAIN opp /\ j \in DOMAIN opp
    BY <1>11, <1>13
  <2>3. ~ (i < j) /\ ~ (j < i)
    BY <1>7, <1>11, <2>1, <2>2
  <2>4. i \in Int /\ j \in Int
    BY <1>12, <1>13
  <2> QED
    BY <2>3, <2>4
<1>15. \A i \in 1 .. Len(opp) : \E e \in book :
           e.side = Opposite(side) /\ e.id = opp[i].id /\ e.price = opp[i].price
  BY <1>2, <1>13
<1> QED
  BY <1>13, <1>14, <1>15 DEF opp

\* What a new order reserves is a number.
LEMMA ReserveInt ==
    ASSUME TypedRedis, Once, NEW m \in Menu
    PROVE  PlaceReserve(m) \in Int
<1>1. m.price \in Nat /\ m.qty \in Nat
  BY ExchangeAssumption
<1>2. LimitReserve(m, m.qty) \in Int
  <2> DEFINE x == m.price * m.qty
  <2>1. x \in Int
    BY <1>1
  <2> HIDE DEF x
  <2>2. Cost(m, m.qty, x) \in Int
    BY <1>1, <2>1 DEF Cost
  <2> QED
    BY <2>2 DEF LimitReserve, x
<1>3. MarketBuyLock(m.qty) \in Int
  <2> DEFINE asks == OppositeOrders("buy")
             take == Fills(asks, m.qty)
             f == [i \in DOMAIN asks |-> asks[i].price * take[i]]
  <2>1. asks \in Seq(Maker)
    BY OppositeIs
  <2> HIDE DEF asks
  <2>2. DOMAIN asks = 1 .. Len(asks) /\ Len(asks) \in Nat
    BY <2>1
  <2>3. ASSUME NEW i \in DOMAIN asks
        PROVE  f[i] \in Int
    <3>1. take[i] \in Nat
      BY <1>1, <2>1, <2>2, FillIs
    <3>2. asks[i] \in Maker
      BY <2>1
    <3>3. asks[i].price \in Nat
      BY <3>2 DEF Maker
    <3> HIDE DEF take
    <3> QED
      BY <3>1, <3>3
  <2>4. IsFiniteSet(DOMAIN asks)
    BY <2>2, FS_Interval
  <2>5. DOMAIN f = DOMAIN asks
    OBVIOUS
  <2> HIDE DEF f
  <2>6. SumFunction(f) \in Int
    BY <2>3, <2>4, <2>5, SumInt DEF SumFunction
  <2>7. (SumFunction(f) * 1001) \div 1000 \in Int
    BY <2>6
  <2> QED
    BY <2>7 DEF MarketBuyLock, asks, f
<1>4. BestAskLock(m.qty) \in Int
  <2>1. CASE BestAsks = {}
    BY <2>1 DEF BestAskLock
  <2>2. CASE BestAsks # {}
    <3> DEFINE e == CHOOSE x \in BestAsks : TRUE
    <3>1. e \in BestAsks
      BY <2>2
    <3>2. e \in BookRow
      BY <3>1 DEF BestAsks, TypedRedis
    <3>3. e.price \in Nat
      BY <3>2 DEF BookRow
    <3> HIDE DEF e
    <3> DEFINE y == e.price * 101 * m.qty
    <3>4. y \in Int
      BY <1>1, <3>3
    <3> HIDE DEF y
    <3>5. y \div 100 \in Int
      BY <3>4
    <3> QED
      BY <2>2, <3>5 DEF BestAskLock, e, y
  <2> QED
    BY <2>1, <2>2
<1> QED
  BY <1>2, <1>3, <1>4 DEF PlaceReserve

\* The values that stand for no order and no request.
LEMMA IdleTyped == NoOrder \in Order /\ NoRequest \in Request
<1>1. NoOrder \in Order
  BY DEF NoOrder, Order, NoPrice, Statuses
<1>2. 0 \in 0 .. MaxOrders
  BY ExchangeAssumption
<1> QED
  BY <1>1, <1>2 DEF NoRequest, Request

\* A request moves on, the others stay.
LEMMA ClientIs ==
    ASSUME client \in [Clients -> Request], NEW c \in Clients, NEW t \in Request,
           client' = [client EXCEPT ![c] = t]
    PROVE  /\ client' \in [Clients -> Request] /\ client'[c] = t
           /\ \A d \in Clients \ {c} : client'[d] = client[d]
OBVIOUS

\* The end of a transaction frees its rows and no others.
LEMMA Released ==
    ASSUME TypedPg, NEW x \in Actors, ReleaseRows(x)
    PROVE  /\ balLock' \in [Rows -> Actors \cup {NoOne}] /\ ordLock' \in [Ids -> Actors \cup {NoOne}]
           /\ \A r \in Rows : balLock[r] # x => balLock'[r] = balLock[r]
BY DEF TypedPg, ReleaseRows, Free

\* A step of a request before it commits.
LEMMA FrameOf ==
    ASSUME TypedActors, NEW c \in Clients, NEW t, t = client'[c],
           bal' = bal, orders' = orders, trades' = trades, worker' = worker,
           \/ nextId' = nextId /\ (t.new = 0 \/ (t.new = client[c].new /\ t.draft = client[c].draft))
           \/ nextId' = nextId + 1 /\ t.new = nextId,
           \A d \in Clients \ {c} : client'[d] = client[d],
           \A r \in Rows : balLock[r] \notin {NoOne, c} => balLock'[r] = balLock[r]
    PROVE  ClientFrame(c)
<1>1. \/ nextId' = nextId /\ (client'[c].new = 0 \/ (client'[c].new = client[c].new /\ client'[c].draft = client[c].draft))
      \/ nextId' = nextId + 1 /\ client'[c].new = nextId
  OBVIOUS
<1>2. /\ \A id \in Ids : orders[id].status # "none" =>
             orders'[id].status # "none" /\ SameTerms(orders'[id], orders[id])
      /\ \A id \in Ids : orders[id].status = "none" =>
             orders'[id] = orders[id] \/ (id = client[c].new /\ orders'[id] = client[c].draft)
  <2>1. \A id \in Ids : orders'[id] = orders[id]
    OBVIOUS
  <2>2. \A id \in Ids : SameTerms(orders'[id], orders[id])
    BY <2>1 DEF SameTerms
  <2>3. \A id \in Ids : orders'[id].status = orders[id].status
    BY <2>1
  <2> QED
    BY <2>1, <2>2, <2>3
<1>3. /\ \A r \in Rows : balLock[r] # c => bal'[r] = bal[r]
      /\ \A r \in Rows : bal'[r].locked + bal'[r].available = bal[r].locked + bal[r].available
  OBVIOUS
<1> QED
  BY <1>1, <1>2, <1>3 DEF ClientFrame

\* A step of a request that leaves the worker alone.
LEMMA PostOf ==
    ASSUME NEW c \in Clients, NEW t, t = client'[c], worker' = worker,
           \A d \in Clients \ {c} : client'[d] = client[d],
           t.pc = "place_enqueue" => t.new = nextId,
           book' \subseteq book, seq' = seq,
           queue' = queue \/ \E m \in MessageRow : m.kind # "place" /\ queue' = Append(queue, m)
    PROVE  PostFrame
BY DEF PostFrame

-----------------------------------------------------------------------------
(* The steps of a request.                                                 *)

\* place_order up to the INSERT.
LEMMA PlaceLockKeeps ==
    ASSUME Ind, NEW c \in Clients, NEW m \in Menu, PlaceLock(c, m), edition' = edition
    PROVE  Ind'
<1> DEFINE amt == PlaceReserve(m)
           o == [user |-> m.user, side |-> m.side, type |-> m.type, price |-> m.price,
                 qty |-> m.qty, filled |-> 0, status |-> "new"]
           t == [NoRequest EXCEPT !.pc = "place_enqueue", !.new = nextId, !.shift = amt, !.draft = o]
<1>1. TypedPg /\ TypedRedis /\ TypedActors /\ Once /\ client \in [Clients -> Request]
  BY DEF Ind, Typed, TypedActors
<1>2. amt \in Int
  BY <1>1, ReserveInt
<1>3. /\ client[c].pc = "idle" /\ nextId \in Ids /\ PayRow(m) \in Rows /\ balLock[PayRow(m)] = NoOne
      /\ amt > 0 /\ bal[PayRow(m)].available >= amt
      /\ balLock' = [balLock EXCEPT ![PayRow(m)] = c]
      /\ client' = [client EXCEPT ![c] = t]
      /\ nextId' = nextId + 1
  BY DEF PlaceLock, Affordable
<1>4. UNCHANGED <<pg, ordLock, redis, worker, dropped>>
  BY DEF PlaceLock
<1>5. /\ bal' = bal /\ orders' = orders /\ trades' = trades /\ ordLock' = ordLock /\ worker' = worker
      /\ queue' = queue /\ book' = book /\ hash' = hash /\ seq' = seq /\ dropped' = dropped
  BY <1>4 DEF pg, redis
<1> HIDE DEF amt
<1>6. /\ o \in Order /\ o.status = "new" /\ o.filled = 0 /\ o.user = m.user /\ o.side = m.side
      /\ m.user \in Users
  BY ExchangeAssumption DEF Order, Statuses, Active
<1>7. OrderOk(o) /\ PayRow(o) = PayRow(m)
  BY <1>3, <1>6 DEF OrderOk, PayRow
<1> HIDE DEF o
<1>8. /\ t \in Request /\ t.pc = "place_enqueue" /\ t.old = 0 /\ t.new = nextId /\ t.shift = amt /\ t.draft = o
  <2>1. nextId \in 0 .. MaxOrders
    BY <1>3 DEF Ids
  <2> QED
    BY <1>2, <1>6, <2>1, IdleTyped DEF NoRequest, Request, PlacePCs
<1> HIDE DEF t
<1>9. /\ client' \in [Clients -> Request] /\ client'[c] = t
      /\ \A d \in Clients \ {c} : client'[d] = client[d]
  BY <1>1, <1>3, <1>8, ClientIs
<1>10. balLock' \in [Rows -> Actors \cup {NoOne}] /\ balLock'[PayRow(m)] = c
       /\ \A r \in Rows : balLock[r] \notin {NoOne, c} => balLock'[r] = balLock[r]
  BY <1>1, <1>3 DEF TypedPg, Actors
<1>11. ClientFrame(c)
  BY <1>1, <1>3, <1>5, <1>8, <1>9, <1>10, FrameOf
<1>12. PostFrame
  BY <1>5, <1>8, <1>9, PostOf
<1>13. Typed'
  <2>1. TypedPg'
    BY <1>1, <1>5, <1>10 DEF TypedPg
  <2>2. TypedRedis'
    BY <1>1, <1>5 DEF TypedRedis
  <2>3. TypedActors'
    <3>1. nextId' \in 1 .. MaxOrders + 1
      BY <1>3, ExchangeAssumption DEF Ids
    <3> QED
      BY <1>1, <1>5, <1>9, <3>1 DEF TypedActors
  <2> QED
    BY <2>1, <2>2, <2>3 DEF Typed
<1>14. StageOk(c)'
  <2>1. orders[nextId].status = "none"
    BY <1>3, ExchangeAssumption DEF Ind, Committed, Ids
  <2>2. nextId < nextId' /\ nextId # 0
    BY <1>3, ExchangeAssumption DEF Ids
  <2>3. OrderOk(client[c].draft)'
    BY <1>7, <1>8, <1>9 DEF OrderOk, PayRow
  <2> QED
    BY <1>5, <1>6, <1>8, <1>9, <2>1, <2>2, <2>3 DEF StageOk, PlacePCs, CancelPCs, ModifyPCs
<1>15. ReserveOk(c)'
  <2>1. RequestRow(c)' = PayRow(m)
    BY <1>7, <1>8, <1>9 DEF RequestRow, PayRow
  <2>2. bal[PayRow(m)].locked \in Nat /\ bal[PayRow(m)].available \in Nat
    BY <1>1, <1>3 DEF TypedPg
  <2>3. bal[PayRow(m)].locked + amt >= 0 /\ bal[PayRow(m)].available - amt >= 0
    BY <1>2, <1>3, <2>2
  <2> QED
    BY <1>3, <1>5, <1>8, <1>9, <1>10, <2>1, <2>3 DEF ReserveOk
<1> QED
  BY <1>11, <1>12, <1>13, <1>14, <1>15, ClientStep

\* A request goes on to another stage of its own and moves no funds.
LEMMA Advance ==
    ASSUME Ind, NEW c \in Clients, NEW p,
           \/ client[c].pc \in PlacePCs /\ p \in PlacePCs
           \/ client[c].pc \in CancelPCs /\ p \in CancelPCs \ {"cancel_lock"}
           \/ client[c].pc \in ModifyPCs /\ p \in ModifyPCs,
           client' = [client EXCEPT ![c].pc = p],
           bal' = bal, orders' = orders, trades' = trades, balLock' = balLock, nextId' = nextId, worker' = worker
    PROVE  /\ client' \in [Clients -> Request] /\ client'[c].pc = p /\ client'[c].new = client[c].new
           /\ \A d \in Clients \ {c} : client'[d] = client[d]
           /\ ClientFrame(c) /\ StageOk(c)' /\ ReserveOk(c)'
<1> DEFINE t == [client[c] EXCEPT !.pc = p]
<1>1. client \in [Clients -> Request] /\ client[c] \in Request /\ TypedActors
  BY DEF Ind, Typed, TypedActors
<1>2. client' = [client EXCEPT ![c] = t]
  BY <1>1
<1>3. p \in PlacePCs \cup CancelPCs \cup ModifyPCs
  OBVIOUS
<1>4. /\ t \in Request /\ t.pc = p /\ t.old = client[c].old /\ t.new = client[c].new
      /\ t.draft = client[c].draft /\ t.shift = client[c].shift
  BY <1>1, <1>3 DEF Request
<1> HIDE DEF t
<1>5. /\ client' \in [Clients -> Request] /\ client'[c] = t
      /\ \A d \in Clients \ {c} : client'[d] = client[d]
  BY <1>1, <1>2, <1>4, ClientIs
<1>6. ClientFrame(c)
  BY <1>1, <1>4, <1>5, FrameOf
<1>7. StageOk(c)'
  <2>1. StageOk(c)
    BY DEF Ind, Requests
  <2>2. OrderOk(client[c].draft) <=> OrderOk(client[c].draft)'
    BY <1>4, <1>5 DEF OrderOk, PayRow
  <2>3. p # "idle" /\ p # "cancel_lock"
    BY <1>3 DEF PlacePCs, CancelPCs, ModifyPCs
  <2>4. /\ t.pc \in PlacePCs => t.old = 0 /\ t.new # 0
        /\ t.pc \in CancelPCs => t.old # 0 /\ t.new = 0
        /\ t.pc \in ModifyPCs => t.old # 0 /\ t.new # 0
    BY <1>4, <2>1 DEF StageOk, PlacePCs, CancelPCs, ModifyPCs
  <2> QED
    BY <1>4, <1>5, <2>1, <2>2, <2>3, <2>4 DEF StageOk
<1>8. ReserveOk(c)'
  <2>1. RequestRow(c)' = RequestRow(c)
    BY <1>4, <1>5 DEF RequestRow, PayRow
  <2>2. ReserveOk(c)
    BY DEF Ind, Reserved
  <2> QED
    BY <1>4, <1>5, <2>1, <2>2 DEF ReserveOk
<1> QED
  BY <1>4, <1>5, <1>6, <1>7, <1>8

\* A request's message and its order have their types.
LEMMA MessageTyped ==
    ASSUME Ind, NEW o \in Order, NEW id \in Ids, NEW kind \in {"place", "cancel", "modify"}
    PROVE  /\ Message(kind, id, o) \in MessageRow /\ Message(kind, id, o).kind = kind
           /\ Message(kind, id, o).id = id /\ Message(kind, id, o).user = o.user
           /\ Message(kind, id, o).side = o.side /\ Message(kind, id, o).price = o.price
BY DEF Message, MessageRow, Order, Sides, Types

\* The ids and amounts of a request.
LEMMA RequestIds ==
    ASSUME Ind, NEW c \in Clients
    PROVE  /\ client[c] \in Request /\ client[c].draft \in Order /\ client[c].shift \in Int /\ client[c].want \in Int
           /\ client[c].pc \in CancelPCs \cup ModifyPCs => client[c].old \in Ids /\ orders[client[c].old] \in Order
           /\ client[c].pc \in PlacePCs \cup ModifyPCs => client[c].new \in Ids
           /\ client[c].pc \in PlacePCs => client[c].old = 0
           /\ client[c].pc \in CancelPCs => client[c].new = 0
<1>1. client[c] \in Request
  BY DEF Ind, Typed, TypedActors
<1>2. /\ client[c].draft \in Order /\ client[c].shift \in Int /\ client[c].want \in Int
      /\ client[c].old \in 0 .. MaxOrders /\ client[c].new \in 0 .. MaxOrders
  BY <1>1 DEF Request
<1>3. \A x \in 0 .. MaxOrders : x # 0 => x \in Ids
  BY ExchangeAssumption DEF Ids
<1>4. StageOk(c)
  BY DEF Ind, Requests
<1>5. \A id \in Ids : orders[id] \in Order
  BY DEF Ind, Typed, TypedPg
<1> QED
  BY <1>1, <1>2, <1>3, <1>4, <1>5 DEF StageOk

\* store_order_hash.
LEMMA PlaceHashKeeps ==
    ASSUME Ind, NEW c \in Clients, PlaceHash(c), edition' = edition
    PROVE  Ind'
<1>1. /\ client[c].pc = "place_hash"
      /\ hash' = [hash EXCEPT ![client[c].new] = client[c].draft.qty]
      /\ client' = [client EXCEPT ![c].pc = "place_commit"]
  BY DEF PlaceHash
<1>2. UNCHANGED <<pg, balLock, ordLock, nextId, queue, book, seq, worker, dropped>>
  BY DEF PlaceHash
<1>3. /\ bal' = bal /\ orders' = orders /\ trades' = trades /\ balLock' = balLock /\ ordLock' = ordLock
      /\ nextId' = nextId /\ queue' = queue /\ book' = book /\ seq' = seq /\ worker' = worker /\ dropped' = dropped
  BY <1>2 DEF pg
<1>4. /\ client' \in [Clients -> Request] /\ client'[c].pc = "place_commit"
      /\ \A d \in Clients \ {c} : client'[d] = client[d]
      /\ ClientFrame(c) /\ StageOk(c)' /\ ReserveOk(c)'
  <2>1. client[c].pc \in PlacePCs /\ "place_commit" \in PlacePCs
    BY <1>1 DEF PlacePCs
  <2> QED
    BY <1>1, <1>3, <2>1, Advance
<1>5. PostFrame
  BY <1>3, <1>4, PostOf
<1>6. Typed'
  <2>1. client[c].draft.qty \in Nat
    BY RequestIds DEF Order
  <2>2. TypedPg' /\ TypedActors'
    BY <1>3, <1>4 DEF Ind, Typed, TypedPg, TypedActors
  <2>3. TypedRedis'
    BY <1>1, <1>3, <2>1 DEF Ind, Typed, TypedRedis
  <2> QED
    BY <2>2, <2>3 DEF Typed
<1> QED
  BY <1>4, <1>5, <1>6, ClientStep

\* update_status(CANCELED) of a cancel.
LEMMA CancelUpdateKeeps ==
    ASSUME Ind, NEW c \in Clients, CancelUpdate(c), edition' = edition
    PROVE  Ind'
<1>1. /\ client[c].pc = "cancel_update"
      /\ ordLock' = [ordLock EXCEPT ![client[c].old] = c]
      /\ client' = [client EXCEPT ![c].pc = "cancel_redis"]
  BY DEF CancelUpdate
<1>2. UNCHANGED <<pg, balLock, nextId, redis, worker, dropped>>
  BY DEF CancelUpdate
<1>3. /\ bal' = bal /\ orders' = orders /\ trades' = trades /\ balLock' = balLock
      /\ nextId' = nextId /\ queue' = queue /\ book' = book /\ hash' = hash /\ seq' = seq
      /\ worker' = worker /\ dropped' = dropped
  BY <1>2 DEF pg, redis
<1>4. /\ client' \in [Clients -> Request] /\ client'[c].pc = "cancel_redis"
      /\ \A d \in Clients \ {c} : client'[d] = client[d]
      /\ ClientFrame(c) /\ StageOk(c)' /\ ReserveOk(c)'
  <2>1. client[c].pc \in CancelPCs /\ "cancel_redis" \in CancelPCs \ {"cancel_lock"}
    BY <1>1 DEF CancelPCs
  <2> QED
    BY <1>1, <1>3, <2>1, Advance
<1>5. PostFrame
  BY <1>3, <1>4, PostOf
<1>6. Typed'
  <2>1. TypedPg'
    BY <1>1, <1>3 DEF Ind, Typed, TypedPg, Actors
  <2>2. TypedRedis' /\ TypedActors'
    BY <1>3, <1>4 DEF Ind, Typed, TypedRedis, TypedActors
  <2> QED
    BY <2>1, <2>2 DEF Typed
<1> QED
  BY <1>4, <1>5, <1>6, ClientStep

\* The Redis commands of a cancel.
LEMMA CancelRedisKeeps ==
    ASSUME Ind, NEW c \in Clients, CancelRedis(c), edition' = edition
    PROVE  Ind'
<1> DEFINE id == client[c].old
           m == Message("cancel", id, orders[id])
<1>1. /\ client[c].pc = "cancel_redis"
      /\ book' = {e \in book : e.id # id}
      /\ hash' = [hash EXCEPT ![id] = 0]
      /\ queue' = Append(queue, m)
      /\ client' = [client EXCEPT ![c].pc = "cancel_commit"]
  BY DEF CancelRedis, RemoveFromBook
<1>2. UNCHANGED <<pg, balLock, ordLock, nextId, seq, worker, dropped>>
  BY DEF CancelRedis
<1>3. /\ bal' = bal /\ orders' = orders /\ trades' = trades /\ balLock' = balLock /\ ordLock' = ordLock
      /\ nextId' = nextId /\ seq' = seq /\ worker' = worker /\ dropped' = dropped
  BY <1>2 DEF pg
<1>4. /\ client' \in [Clients -> Request] /\ client'[c].pc = "cancel_commit"
      /\ \A d \in Clients \ {c} : client'[d] = client[d]
      /\ ClientFrame(c) /\ StageOk(c)' /\ ReserveOk(c)'
  <2>1. client[c].pc \in CancelPCs /\ "cancel_commit" \in CancelPCs \ {"cancel_lock"}
    BY <1>1 DEF CancelPCs
  <2> QED
    BY <1>1, <1>3, <2>1, Advance
<1>5. m \in MessageRow /\ m.kind # "place"
  <2>1. id \in Ids /\ orders[id] \in Order
    BY <1>1, RequestIds DEF CancelPCs
  <2>2. m \in MessageRow /\ m.kind = "cancel"
    BY <2>1, MessageTyped
  <2> QED
    BY <2>2
<1> HIDE DEF m
<1>6. PostFrame
  <2>1. book' \subseteq book
    BY <1>1
  <2>2. \E x \in MessageRow : x.kind # "place" /\ queue' = Append(queue, x)
    BY <1>1, <1>5
  <2> QED
    BY <1>3, <1>4, <2>1, <2>2, PostOf
<1>7. Typed'
  <2>1. TypedPg' /\ TypedActors'
    BY <1>3, <1>4 DEF Ind, Typed, TypedPg, TypedActors
  <2>2. queue \in Seq(MessageRow) /\ book \subseteq BookRow /\ IsFiniteSet(book) /\ hash \in [Ids -> Nat] /\ seq \in Nat
    BY DEF Ind, Typed, TypedRedis
  <2>3. queue' \in Seq(MessageRow)
    BY <1>1, <1>5, <2>2, AppendProperties
  <2>4. book' \subseteq BookRow /\ IsFiniteSet(book')
    BY <1>1, <2>2, FS_Subset
  <2>5. hash' \in [Ids -> Nat]
    BY <1>1, <2>2
  <2>6. TypedRedis'
    BY <1>3, <2>2, <2>3, <2>4, <2>5 DEF TypedRedis
  <2> QED
    BY <2>1, <2>6 DEF Typed
<1> QED
  BY <1>4, <1>6, <1>7, ClientStep

\* The Redis commands of a modify.
LEMMA ModifyRedisKeeps ==
    ASSUME Ind, NEW c \in Clients, ModifyRedis(c), edition' = edition
    PROVE  Ind'
<1> DEFINE t == client[c]
           m == Message("modify", t.new, t.draft)
<1>1. /\ client[c].pc = "modify_redis"
      /\ book' = {e \in book : e.id # t.old}
      /\ hash' = [hash EXCEPT ![t.old] = 0, ![t.new] = t.draft.qty]
      /\ queue' = Append(queue, m)
      /\ client' = [client EXCEPT ![c].pc = "modify_commit"]
  BY DEF ModifyRedis, RemoveFromBook
<1>2. UNCHANGED <<pg, balLock, ordLock, nextId, seq, worker, dropped>>
  BY DEF ModifyRedis
<1>3. /\ bal' = bal /\ orders' = orders /\ trades' = trades /\ balLock' = balLock /\ ordLock' = ordLock
      /\ nextId' = nextId /\ seq' = seq /\ worker' = worker /\ dropped' = dropped
  BY <1>2 DEF pg
<1>4. /\ client' \in [Clients -> Request] /\ client'[c].pc = "modify_commit"
      /\ \A d \in Clients \ {c} : client'[d] = client[d]
      /\ ClientFrame(c) /\ StageOk(c)' /\ ReserveOk(c)'
  <2>1. client[c].pc \in ModifyPCs /\ "modify_commit" \in ModifyPCs
    BY <1>1 DEF ModifyPCs
  <2> QED
    BY <1>1, <1>3, <2>1, Advance
<1>5. m \in MessageRow /\ m.kind # "place" /\ t.draft.qty \in Nat
  <2>1. t.new \in Ids /\ t.draft \in Order
    BY <1>1, RequestIds DEF ModifyPCs
  <2>2. m \in MessageRow /\ m.kind = "modify"
    BY <2>1, MessageTyped
  <2> QED
    BY <2>1, <2>2 DEF Order
<1> HIDE DEF m
<1>6. PostFrame
  <2>1. book' \subseteq book
    BY <1>1
  <2>2. \E x \in MessageRow : x.kind # "place" /\ queue' = Append(queue, x)
    BY <1>1, <1>5
  <2> QED
    BY <1>3, <1>4, <2>1, <2>2, PostOf
<1>7. Typed'
  <2>1. TypedPg' /\ TypedActors'
    BY <1>3, <1>4 DEF Ind, Typed, TypedPg, TypedActors
  <2>2. queue \in Seq(MessageRow) /\ book \subseteq BookRow /\ IsFiniteSet(book) /\ hash \in [Ids -> Nat] /\ seq \in Nat
    BY DEF Ind, Typed, TypedRedis
  <2>3. queue' \in Seq(MessageRow)
    BY <1>1, <1>5, <2>2, AppendProperties
  <2>4. book' \subseteq BookRow /\ IsFiniteSet(book')
    BY <1>1, <2>2, FS_Subset
  <2>5. hash' \in [Ids -> Nat]
    BY <1>1, <1>5, <2>2
  <2>6. TypedRedis'
    BY <1>3, <2>2, <2>3, <2>4, <2>5 DEF TypedRedis
  <2> QED
    BY <2>1, <2>6 DEF Typed
<1> QED
  BY <1>4, <1>6, <1>7, ClientStep

\* The message of a new order: nothing else in the queue, the worker or the book
\* is about it.
LEMMA PlaceEnqueueKeeps ==
    ASSUME Ind, NEW c \in Clients, PlaceEnqueue(c), edition' = edition
    PROVE  Ind'
<1> DEFINE m == Message("place", client[c].new, client[c].draft)
<1>1. /\ client[c].pc = "place_enqueue"
      /\ queue' = Append(queue, m)
      /\ client' = [client EXCEPT ![c].pc = "place_hash"]
  BY DEF PlaceEnqueue
<1>2. UNCHANGED <<pg, balLock, ordLock, nextId, book, hash, seq, worker, dropped>>
  BY DEF PlaceEnqueue
<1>3. /\ bal' = bal /\ orders' = orders /\ trades' = trades /\ balLock' = balLock /\ ordLock' = ordLock
      /\ nextId' = nextId /\ book' = book /\ hash' = hash /\ seq' = seq /\ worker' = worker /\ dropped' = dropped
  BY <1>2 DEF pg
<1>4. /\ client' \in [Clients -> Request] /\ client'[c].pc = "place_hash" /\ client'[c].new = client[c].new
      /\ \A d \in Clients \ {c} : client'[d] = client[d]
      /\ ClientFrame(c) /\ StageOk(c)' /\ ReserveOk(c)'
  <2>1. client[c].pc \in PlacePCs /\ "place_hash" \in PlacePCs
    BY <1>1 DEF PlacePCs
  <2> QED
    BY <1>1, <1>3, <2>1, Advance
<1>5. /\ m \in MessageRow /\ m.kind = "place" /\ m.id = client[c].new /\ m.user = client[c].draft.user
      /\ m.side = client[c].draft.side /\ m.price = client[c].draft.price /\ m.id \in Ids
  <2>1. client[c].new \in Ids /\ client[c].draft \in Order
    BY <1>1, RequestIds DEF PlacePCs
  <2> QED
    BY <2>1, MessageTyped
<1> HIDE DEF m
<1>6. queue \in Seq(MessageRow) /\ TypedRedis /\ Posted /\ Once
  BY DEF Ind, Typed, TypedRedis
<1>7. /\ queue' \in Seq(MessageRow) /\ Len(queue') = Len(queue) + 1
      /\ \A i \in 1 .. Len(queue) : queue'[i] = queue[i]
      /\ queue'[Len(queue) + 1] = m
  BY <1>1, <1>5, <1>6, AppendProperties
<1>8. Len(queue) \in Nat /\ DOMAIN queue = 1 .. Len(queue) /\ DOMAIN queue' = 1 .. Len(queue) + 1
  BY <1>6, <1>7, LenProperties
<1>9. \A i \in DOMAIN queue' : (i \in DOMAIN queue /\ queue'[i] = queue[i]) \/ (i = Len(queue) + 1 /\ queue'[i] = m)
  BY <1>7, <1>8
<1>10. Typed'
  <2>1. TypedPg' /\ TypedActors'
    BY <1>3, <1>4 DEF Ind, Typed, TypedPg, TypedActors
  <2>2. TypedRedis'
    BY <1>3, <1>6, <1>7 DEF TypedRedis
  <2> QED
    BY <2>1, <2>2 DEF Typed
<1>11. Steady
  BY <1>4, ClientSteady DEF Ind, Typed
<1>12. PlaceOk(m)
  <2>1. StageOk(c) /\ client[c].new # 0
    BY <1>1 DEF Ind, Requests, StageOk, PlacePCs
  <2>2. Listed(m.id, m.side, m.price)
    <3>1. \A d \in Clients : client[d].new = m.id => d = c
      BY <1>5, <2>1 DEF Ind, Requests
    <3>2. m.id < nextId /\ orders[m.id].status = "none"
      BY <1>5, <2>1 DEF StageOk
    <3> QED
      BY <1>5, <3>1, <3>2 DEF Listed
  <2>3. m.side = "buy" => <<m.user, "quote">> \in Rows
    BY <1>5, <2>1 DEF StageOk, OrderOk, PayRow, PayAsset
  <2> QED
    BY <2>2, <2>3 DEF PlaceOk
<1>13. ASSUME NEW x, x.id \in Ids, PlaceOk(x)
       PROVE  PlaceOk(x)'
  BY <1>11, <1>13, ListedLater DEF PlaceOk
<1>14. ASSUME NEW i \in DOMAIN queue', queue'[i].kind = "place"
       PROVE  PlaceOk(queue[i])'
  <2>1. PICK x : x = queue'[i]
    OBVIOUS
  <2>2. PlaceOk(x) /\ x.id \in Ids
    BY <1>5, <1>6, <1>9, <1>12, <1>14, <2>1, MessageIds DEF Posted
  <2>3. PlaceOk(x)'
    BY <1>13, <2>2
  <2> QED
    BY <2>1, <2>3 DEF PlaceOk, Listed
<1>15. Posted'
  <2>1. ASSUME worker.pc # "idle"
        PROVE  worker.msg \in MessageRow /\ PlaceOk(worker.msg)'
    <3>1. worker.msg \in MessageRow /\ PlaceOk(worker.msg)
      BY <1>6, <2>1 DEF Posted
    <3>2. PICK x : x = worker.msg
      OBVIOUS
    <3>3. x.id \in Ids
      BY <3>1, <3>2 DEF MessageRow
    <3>4. PlaceOk(x)'
      BY <1>13, <3>1, <3>2, <3>3
    <3> QED
      BY <1>3, <3>1, <3>2, <3>4 DEF PlaceOk, Listed
  <2>2. ASSUME NEW e \in book
        PROVE  Listed(e.id, e.side, e.price)'
    <3>1. e \in BookRow /\ Listed(e.id, e.side, e.price)
      BY <1>6 DEF Posted, TypedRedis
    <3>2. PICK f : f = e
      OBVIOUS
    <3>3. f.id \in Ids
      BY <3>1, <3>2 DEF BookRow
    <3>4. Listed(f.id, f.side, f.price)'
      BY <1>11, <3>1, <3>2, <3>3, ListedLater
    <3> QED
      BY <3>2, <3>4 DEF Listed
  <2> QED
    BY <1>3, <1>14, <2>1, <2>2 DEF Posted
<1>16. ~Waits(m.id) /\ ~InHand(m.id) /\ ~InBook(m.id)
  BY <1>1, <1>5, <1>6 DEF Once
<1>17. \A id : (Waits(id)' => Waits(id) \/ id = m.id) /\ (InHand(id)' <=> InHand(id)) /\ (InBook(id)' <=> InBook(id))
  BY <1>3, <1>9 DEF Waits, InHand, InBook
<1>18. Once'
  <2>1. \A i, j \in DOMAIN queue' :
           queue'[i].kind = "place" /\ queue'[j].kind = "place" /\ queue'[i].id = queue'[j].id => i = j
    <3>1. \A i, j \in DOMAIN queue :
             queue[i].kind = "place" /\ queue[j].kind = "place" /\ queue[i].id = queue[j].id => i = j
      BY <1>6 DEF Once
    <3>2. \A i \in DOMAIN queue : queue[i].kind = "place" => queue[i].id # m.id
      BY <1>16 DEF Waits
    <3> QED
      BY <1>9, <3>1, <3>2
  <2>2. \A id \in Ids : (Waits(id)' => ~InHand(id)' /\ ~InBook(id)') /\ (InHand(id)' => ~InBook(id)')
    BY <1>6, <1>16, <1>17 DEF Once
  <2>3. ASSUME NEW d \in Clients, client'[d].pc = "place_enqueue"
        PROVE  (~Waits(client[d].new) /\ ~InHand(client[d].new) /\ ~InBook(client[d].new))'
    <3>1. d # c /\ client'[d] = client[d]
      BY <1>4, <2>3
    <3>2. PICK n : n = client[d].new
      OBVIOUS
    <3>3. n # 0
      BY <2>3, <3>1, <3>2 DEF Ind, Requests, StageOk, PlacePCs
    <3>4. n # m.id
      BY <1>5, <3>1, <3>2, <3>3 DEF Ind, Requests
    <3>5. ~Waits(n) /\ ~InHand(n) /\ ~InBook(n)
      BY <1>6, <2>3, <3>1, <3>2 DEF Once
    <3>6. ~Waits(n)' /\ ~InHand(n)' /\ ~InBook(n)'
      BY <1>17, <3>4, <3>5
    <3> QED
      BY <3>1, <3>2, <3>6 DEF Waits, InHand, InBook
  <2>4. (\A e, f \in book' : e.id = f.id \/ e.seq = f.seq => e = f) /\ (\A e \in book' : e.seq <= seq')
    BY <1>3, <1>6 DEF Once
  <2> QED
    BY <2>1, <2>2, <2>3, <2>4 DEF Once
<1> QED
  BY <1>4, <1>10, <1>15, <1>18, ClientStepPosting

\* What a cancel or a modify unlocks is a number.
LEMMA UnlockInt ==
    ASSUME NEW o \in Order
    PROVE  LimitReserve(o, Remaining(o)) \in Int /\ LimitReserve(o, o.qty) \in Int
<1>1. o.price \in Nat /\ o.qty \in Nat /\ o.filled \in Nat
  BY DEF Order
<1>2. Remaining(o) \in Int /\ o.price * Remaining(o) \in Int /\ o.price * o.qty \in Int
  BY <1>1 DEF Remaining
<1> QED
  BY <1>1, <1>2 DEF LimitReserve, Cost

\* The read of a cancel.
LEMMA CancelReadKeeps ==
    ASSUME Ind, NEW c \in Clients, NEW id \in Ids, CancelRead(c, id), edition' = edition
    PROVE  Ind'
<1> DEFINE want == LimitReserve(orders[id], Remaining(orders[id]))
           p == IF want > 0 THEN "cancel_lock" ELSE "cancel_update"
           t == [NoRequest EXCEPT !.old = id, !.want = want, !.pc = p]
<1>1. /\ client[c].pc = "idle" /\ orders[id].status \in Active
      /\ client' = [client EXCEPT ![c] = t]
  BY DEF CancelRead
<1>2. UNCHANGED <<pg, balLock, ordLock, nextId, redis, worker, dropped>>
  BY DEF CancelRead
<1>3. /\ bal' = bal /\ orders' = orders /\ trades' = trades /\ balLock' = balLock /\ ordLock' = ordLock
      /\ nextId' = nextId /\ queue' = queue /\ book' = book /\ hash' = hash /\ seq' = seq
      /\ worker' = worker /\ dropped' = dropped
  BY <1>2 DEF pg, redis
<1>4. client \in [Clients -> Request] /\ TypedActors /\ orders[id] \in Order
  BY DEF Ind, Typed, TypedActors, TypedPg
<1>5. want \in Int
  BY <1>4, UnlockInt
<1> HIDE DEF want
<1>6. p \in CancelPCs /\ (p = "cancel_lock" => want > 0) /\ p # "idle" /\ p # "place_enqueue" /\ p \notin PlacePCs \cup ModifyPCs
  BY DEF CancelPCs, PlacePCs, ModifyPCs
<1> HIDE DEF p
<1>7. id \in 0 .. MaxOrders /\ id # 0
  BY ExchangeAssumption DEF Ids
<1>8. t \in Request /\ t.pc = p /\ t.old = id /\ t.new = 0 /\ t.shift = 0 /\ t.want = want
  BY <1>5, <1>6, <1>7, IdleTyped DEF NoRequest, Request
<1> HIDE DEF t
<1>9. /\ client' \in [Clients -> Request] /\ client'[c] = t
      /\ \A d \in Clients \ {c} : client'[d] = client[d]
  BY <1>1, <1>4, <1>8, ClientIs
<1>10. ClientFrame(c)
  BY <1>3, <1>4, <1>8, <1>9, FrameOf
<1>11. PostFrame
  BY <1>3, <1>6, <1>8, <1>9, PostOf
<1>12. Typed'
  <2>1. TypedPg' /\ TypedRedis' /\ TypedActors'
    BY <1>3, <1>9 DEF Ind, Typed, TypedPg, TypedRedis, TypedActors
  <2> QED
    BY <2>1 DEF Typed
<1>13. StageOk(c)'
  <2>1. orders[id].status # "none"
    BY <1>1 DEF Active
  <2> QED
    BY <1>3, <1>6, <1>7, <1>8, <1>9, <2>1 DEF StageOk
<1>14. ReserveOk(c)'
  BY <1>8, <1>9 DEF ReserveOk
<1> QED
  BY <1>10, <1>11, <1>12, <1>13, <1>14, ClientStep

\* The old order of a modify, FOR UPDATE.
LEMMA ModifyBeginKeeps ==
    ASSUME Ind, NEW c \in Clients, NEW id \in Ids, NEW terms \in Replacements, ModifyBegin(c, id, terms),
           edition' = edition
    PROVE  Ind'
<1> DEFINE o == [orders[id] EXCEPT !.price = terms.price, !.qty = terms.qty, !.filled = 0, !.status = "new"]
           t == [NoRequest EXCEPT !.pc = "modify_lock", !.old = id, !.new = nextId, !.draft = o]
<1>1. /\ client[c].pc = "idle" /\ nextId \in Ids /\ orders[id].status \in Active
      /\ ordLock' = [ordLock EXCEPT ![id] = c]
      /\ client' = [client EXCEPT ![c] = t]
      /\ nextId' = nextId + 1
  BY DEF ModifyBegin
<1>2. UNCHANGED <<pg, balLock, redis, worker, dropped>>
  BY DEF ModifyBegin
<1>3. /\ bal' = bal /\ orders' = orders /\ trades' = trades /\ balLock' = balLock
      /\ queue' = queue /\ book' = book /\ hash' = hash /\ seq' = seq
      /\ worker' = worker /\ dropped' = dropped
  BY <1>2 DEF pg, redis
<1>4. client \in [Clients -> Request] /\ TypedActors /\ orders[id] \in Order
  BY DEF Ind, Typed, TypedActors, TypedPg
<1>5. orders[id].status # "none" /\ OrderOk(orders[id])
  BY <1>1 DEF Active, Ind, Committed
<1>6. /\ o \in Order /\ o.status = "new" /\ o.filled = 0 /\ o.user = orders[id].user /\ o.side = orders[id].side
  <2>1. terms.price \in Nat /\ terms.qty \in Nat
    BY ExchangeAssumption
  <2> QED
    BY <1>4, <2>1 DEF Order, Statuses, Active
<1>7. OrderOk(o)
  BY <1>5, <1>6 DEF OrderOk, PayRow
<1> HIDE DEF o
<1>8. id \in 0 .. MaxOrders /\ id # 0 /\ nextId \in 0 .. MaxOrders /\ nextId # 0 /\ nextId \in Nat
  BY <1>1, ExchangeAssumption DEF Ids
<1>9. /\ t \in Request /\ t.pc = "modify_lock" /\ t.old = id /\ t.new = nextId /\ t.shift = 0 /\ t.draft = o
  BY <1>6, <1>8, IdleTyped DEF NoRequest, Request, ModifyPCs
<1> HIDE DEF t
<1>10. /\ client' \in [Clients -> Request] /\ client'[c] = t
       /\ \A d \in Clients \ {c} : client'[d] = client[d]
  BY <1>1, <1>4, <1>9, ClientIs
<1>11. ClientFrame(c)
  BY <1>1, <1>3, <1>4, <1>9, <1>10, FrameOf
<1>12. PostFrame
  BY <1>3, <1>9, <1>10, PostOf
<1>13. Typed'
  <2>1. TypedPg'
    BY <1>1, <1>3 DEF Ind, Typed, TypedPg, Actors
  <2>2. TypedRedis'
    BY <1>3 DEF Ind, Typed, TypedRedis
  <2>3. nextId' \in 1 .. MaxOrders + 1
    BY <1>1, <1>8, ExchangeAssumption
  <2>4. TypedActors'
    BY <1>3, <1>10, <2>3 DEF Ind, Typed, TypedActors
  <2> QED
    BY <2>1, <2>2, <2>4 DEF Typed
<1>14. StageOk(c)'
  <2>1. orders[nextId].status = "none"
    BY <1>1, <1>8 DEF Ind, Committed
  <2>2. nextId < nextId'
    BY <1>1, <1>8
  <2>3. OrderOk(client[c].draft)'
    BY <1>7, <1>9, <1>10 DEF OrderOk, PayRow
  <2> QED
    BY <1>3, <1>5, <1>6, <1>8, <1>9, <1>10, <2>1, <2>2, <2>3 DEF StageOk, PlacePCs, CancelPCs, ModifyPCs
<1>15. ReserveOk(c)'
  BY <1>9, <1>10 DEF ReserveOk
<1> QED
  BY <1>11, <1>12, <1>13, <1>14, <1>15, ClientStep

\* A request that ends without a commit.
LEMMA RequestEnds ==
    ASSUME Ind, NEW c \in Clients, client' = [client EXCEPT ![c] = NoRequest], ReleaseRows(c),
           bal' = bal, orders' = orders, trades' = trades, nextId' = nextId, queue' = queue, book' = book,
           hash' = hash, seq' = seq, worker' = worker, dropped' \subseteq Ids, edition' = edition
    PROVE  Ind'
<1>1. client \in [Clients -> Request] /\ TypedActors /\ TypedPg /\ c \in Actors
  BY DEF Ind, Typed, TypedActors, Actors
<1>2. NoRequest \in Request /\ NoRequest.pc = "idle" /\ NoRequest.old = 0 /\ NoRequest.new = 0 /\ NoRequest.shift = 0
  BY IdleTyped DEF NoRequest
<1>3. /\ client' \in [Clients -> Request] /\ client'[c] = NoRequest
      /\ \A d \in Clients \ {c} : client'[d] = client[d]
  BY <1>1, <1>2, ClientIs
<1>4. /\ balLock' \in [Rows -> Actors \cup {NoOne}] /\ ordLock' \in [Ids -> Actors \cup {NoOne}]
      /\ \A r \in Rows : balLock[r] # c => balLock'[r] = balLock[r]
  BY <1>1, Released
<1>5. ClientFrame(c)
  BY <1>1, <1>2, <1>3, <1>4, FrameOf
<1>6. PostFrame
  BY <1>2, <1>3, PostOf
<1>7. Typed'
  <2>1. TypedPg' /\ TypedRedis' /\ TypedActors'
    BY <1>3, <1>4 DEF Ind, Typed, TypedPg, TypedRedis, TypedActors
  <2> QED
    BY <2>1 DEF Typed
<1>8. StageOk(c)' /\ ReserveOk(c)'
  BY <1>2, <1>3 DEF StageOk, ReserveOk, PlacePCs, CancelPCs, ModifyPCs
<1> QED
  BY <1>5, <1>6, <1>7, <1>8, ClientStep

\* A request that fails leaves nothing in PostgreSQL.
LEMMA RequestRollbackKeeps ==
    ASSUME Ind, NEW c \in Clients, RequestRollback(c), edition' = edition
    PROVE  Ind'
<1>1. /\ client' = [client EXCEPT ![c] = NoRequest] /\ ReleaseRows(c)
      /\ dropped' = dropped \cup ({client[c].old, client[c].new} \ {0})
  BY DEF RequestRollback
<1>2. UNCHANGED <<pg, nextId, redis, worker>>
  BY DEF RequestRollback
<1>3. /\ bal' = bal /\ orders' = orders /\ trades' = trades /\ nextId' = nextId /\ queue' = queue /\ book' = book
      /\ hash' = hash /\ seq' = seq /\ worker' = worker
  BY <1>2 DEF pg, redis
<1>4. dropped' \subseteq Ids
  <2>1. client[c] \in Request /\ dropped \subseteq Ids
    BY DEF Ind, Typed, TypedActors
  <2>2. client[c].old \in 0 .. MaxOrders /\ client[c].new \in 0 .. MaxOrders
    BY <2>1 DEF Request
  <2>3. \A x \in 0 .. MaxOrders : x # 0 => x \in Ids
    BY ExchangeAssumption DEF Ids
  <2> QED
    BY <1>1, <2>1, <2>2, <2>3
<1> QED
  BY <1>1, <1>3, <1>4, RequestEnds

\* A request takes the row it pays from and means to move s of it.
LEMMA RowTaken ==
    ASSUME Ind, NEW c \in Clients, NEW s \in Int, NEW p, NEW row, row = RequestRow(c),
           \/ client[c].pc \in CancelPCs /\ p \in CancelPCs \ {"cancel_lock"}
           \/ client[c].pc \in ModifyPCs /\ p \in ModifyPCs,
           balLock[row] = NoOne, balLock' = [balLock EXCEPT ![row] = c],
           client' = [client EXCEPT ![c].pc = p, ![c].shift = s],
           row \in Rows, bal[row].locked + s >= 0, bal[row].available - s >= 0,
           bal' = bal, orders' = orders, trades' = trades, ordLock' = ordLock, nextId' = nextId, queue' = queue,
           book' = book, hash' = hash, seq' = seq, worker' = worker, dropped' = dropped, edition' = edition
    PROVE  Ind'
<1> DEFINE t == [client[c] EXCEPT !.pc = p, !.shift = s]
<1>1. client \in [Clients -> Request] /\ client[c] \in Request /\ TypedActors /\ TypedPg
  BY DEF Ind, Typed, TypedActors
<1>2. client' = [client EXCEPT ![c] = t]
  BY <1>1
<1>3. p \in CancelPCs \cup ModifyPCs /\ p \notin {"idle", "cancel_lock", "place_enqueue"} \cup PlacePCs
  BY DEF PlacePCs, CancelPCs, ModifyPCs
<1>4. /\ t \in Request /\ t.pc = p /\ t.old = client[c].old /\ t.new = client[c].new
      /\ t.draft = client[c].draft /\ t.shift = s
  BY <1>1, <1>3 DEF Request
<1> HIDE DEF t
<1>5. /\ client' \in [Clients -> Request] /\ client'[c] = t
      /\ \A d \in Clients \ {c} : client'[d] = client[d]
  BY <1>1, <1>2, <1>4, ClientIs
<1>6. /\ balLock' \in [Rows -> Actors \cup {NoOne}] /\ balLock'[row] = c
      /\ \A r \in Rows : balLock[r] \notin {NoOne, c} => balLock'[r] = balLock[r]
  BY <1>1 DEF TypedPg, Actors
<1>7. ClientFrame(c)
  BY <1>1, <1>4, <1>5, <1>6, FrameOf
<1>8. PostFrame
  BY <1>3, <1>4, <1>5, PostOf
<1>9. Typed'
  <2>1. TypedPg' /\ TypedRedis' /\ TypedActors'
    BY <1>5, <1>6 DEF Ind, Typed, TypedPg, TypedRedis, TypedActors
  <2> QED
    BY <2>1 DEF Typed
<1>10. StageOk(c)'
  <2>1. StageOk(c)
    BY DEF Ind, Requests
  <2>2. OrderOk(client[c].draft) <=> OrderOk(client[c].draft)'
    BY <1>4, <1>5 DEF OrderOk, PayRow
  <2>4. /\ t.pc \in CancelPCs => t.old # 0 /\ t.new = 0
        /\ t.pc \in ModifyPCs => t.old # 0 /\ t.new # 0
    BY <1>4, <2>1 DEF StageOk, CancelPCs, ModifyPCs
  <2> QED
    BY <1>3, <1>4, <1>5, <2>1, <2>2, <2>4 DEF StageOk
<1>11. ReserveOk(c)'
  <2>1. PICK g, h, o : g = client[c] /\ h = client'[c] /\ o = orders
    OBVIOUS
  <2>2. h.old = g.old /\ h.draft = g.draft
    BY ONLY <1>4, <1>5, <2>1
  <2>3. /\ RequestRow(c) = PayRow(IF g.old # 0 THEN o[g.old] ELSE g.draft)
        /\ RequestRow(c)' = PayRow(IF h.old # 0 THEN o[h.old] ELSE h.draft)
    BY ONLY orders' = orders, <2>1 DEF RequestRow, PayRow
  <2>4. RequestRow(c)' = row
    BY <2>2, <2>3
  <2> QED
    BY <1>4, <1>5, <1>6, <2>4 DEF ReserveOk
<1> QED
  BY <1>7, <1>8, <1>9, <1>10, <1>11, ClientStep

\* The row of a request that cancels or replaces an order exists.
LEMMA RowExists ==
    ASSUME Ind, NEW c \in Clients, client[c].pc \in CancelPCs \cup ModifyPCs
    PROVE  /\ RequestRow(c) \in Rows
           /\ bal[RequestRow(c)].locked \in Nat /\ bal[RequestRow(c)].available \in Nat
           /\ orders[client[c].old] \in Order
<1>1. client[c].old \in Ids /\ orders[client[c].old] \in Order
  BY RequestIds
<1>2. client[c].old # 0 /\ orders[client[c].old].status # "none"
  BY DEF Ind, Requests, StageOk
<1>3. RequestRow(c) \in Rows
  BY <1>1, <1>2 DEF Ind, Committed, OrderOk, RequestRow
<1> QED
  BY <1>1, <1>3 DEF Ind, Typed, TypedPg

\* The unlock of a cancel: no more than is locked.
LEMMA CancelLockKeeps ==
    ASSUME Ind, NEW c \in Clients, CancelLock(c), edition' = edition
    PROVE  Ind'
<1>0. PICK row : row = RequestRow(c)
  OBVIOUS
<1>1. /\ client[c].pc = "cancel_lock" /\ balLock[row] = NoOne
      /\ balLock' = [balLock EXCEPT ![row] = c]
      /\ client' = [client EXCEPT ![c].pc = "cancel_update", ![c].shift = -Min({client[c].want, bal[row].locked})]
  BY <1>0 DEF CancelLock
<1>2. UNCHANGED <<pg, ordLock, nextId, redis, worker, dropped>>
  BY DEF CancelLock
<1>3. /\ bal' = bal /\ orders' = orders /\ trades' = trades /\ ordLock' = ordLock
      /\ nextId' = nextId /\ queue' = queue /\ book' = book /\ hash' = hash /\ seq' = seq
      /\ worker' = worker /\ dropped' = dropped
  BY <1>2 DEF pg, redis
<1>4. client[c].pc \in CancelPCs /\ "cancel_update" \in CancelPCs \ {"cancel_lock"}
  BY <1>1 DEF CancelPCs
<1>5. row \in Rows /\ bal[row].locked \in Nat /\ bal[row].available \in Nat
  BY <1>0, <1>4, RowExists
<1>6. client[c].want \in Int /\ client[c].want > 0
  BY <1>1, RequestIds DEF Ind, Requests, StageOk
<1> DEFINE s == -Min({client[c].want, bal[row].locked})
<1>7. s \in Int /\ bal[row].locked + s >= 0 /\ bal[row].available - s >= 0
  <2>1. Min({client[c].want, bal[row].locked}) =
            IF client[c].want <= bal[row].locked THEN client[c].want ELSE bal[row].locked
    BY <1>5, <1>6, SmallerOf
  <2> QED
    BY <1>5, <1>6, <2>1
<1> HIDE DEF s
<1>8. client' = [client EXCEPT ![c].pc = "cancel_update", ![c].shift = s]
  BY <1>1 DEF s
<1> QED
  BY <1>0, <1>1, <1>3, <1>4, <1>5, <1>7, <1>8, RowTaken

\* The unlock of the older cancel.
LEMMA CancelUnlockKeeps ==
    ASSUME Ind, NEW c \in Clients, CancelUnlock(c), edition' = edition
    PROVE  Ind'
<1>0. PICK row : row = RequestRow(c)
  OBVIOUS
<1>1. UNCHANGED <<pg, nextId, redis, worker, dropped>>
  BY DEF CancelUnlock
<1>2. /\ bal' = bal /\ orders' = orders /\ trades' = trades
      /\ nextId' = nextId /\ queue' = queue /\ book' = book /\ hash' = hash /\ seq' = seq
      /\ worker' = worker /\ dropped' = dropped
  BY <1>1 DEF pg, redis
<1>3. client[c].pc = "cancel_lock" /\ balLock[row] = NoOne
  BY <1>0 DEF CancelUnlock
<1>4. client[c].pc \in CancelPCs /\ "cancel_update" \in CancelPCs \ {"cancel_lock"}
  BY <1>3 DEF CancelPCs
<1>5. row \in Rows /\ bal[row].locked \in Nat /\ bal[row].available \in Nat
  BY <1>0, <1>4, RowExists
<1>6. client[c].want \in Int /\ client[c].want > 0
  BY <1>3, RequestIds DEF Ind, Requests, StageOk
<1>7. CASE /\ bal[row].locked >= client[c].want
           /\ balLock' = [balLock EXCEPT ![row] = c]
           /\ client' = [client EXCEPT ![c].pc = "cancel_update", ![c].shift = -client[c].want]
           /\ UNCHANGED ordLock
  <2> DEFINE s == -client[c].want
  <2>1. s \in Int /\ bal[row].locked + s >= 0 /\ bal[row].available - s >= 0
    BY <1>5, <1>6, <1>7
  <2>2. client' = [client EXCEPT ![c].pc = "cancel_update", ![c].shift = s] /\ ordLock' = ordLock
        /\ balLock' = [balLock EXCEPT ![row] = c]
    BY <1>7
  <2> HIDE DEF s
  <2> QED
    BY <1>0, <1>2, <1>3, <1>4, <1>5, <2>1, <2>2, RowTaken
<1>8. CASE client' = [client EXCEPT ![c] = NoRequest] /\ ReleaseRows(c)
  <2>1. dropped' \subseteq Ids
    BY <1>2 DEF Ind, Typed, TypedActors
  <2> QED
    BY <1>2, <1>8, <2>1, RequestEnds
<1> QED
  BY <1>0, <1>7, <1>8 DEF CancelUnlock

\* The two balance moves of a modify.
LEMMA ModifyLockKeeps ==
    ASSUME Ind, NEW c \in Clients, ModifyLock(c), edition' = edition
    PROVE  Ind'
<1>0. PICK row : row = RequestRow(c)
  OBVIOUS
<1> DEFINE o == orders[client[c].old]
           unlock == LimitReserve(o, Remaining(o))
           lock == LimitReserve(client[c].draft, client[c].draft.qty)
<1>1. UNCHANGED <<pg, nextId, redis, worker, dropped>>
  BY DEF ModifyLock
<1>2. /\ bal' = bal /\ orders' = orders /\ trades' = trades
      /\ nextId' = nextId /\ queue' = queue /\ book' = book /\ hash' = hash /\ seq' = seq
      /\ worker' = worker /\ dropped' = dropped
  BY <1>1 DEF pg, redis
<1>3. client[c].pc = "modify_lock" /\ balLock[row] = NoOne
  BY <1>0 DEF ModifyLock
<1>4. client[c].pc \in ModifyPCs /\ "modify_redis" \in ModifyPCs
  BY <1>3 DEF ModifyPCs
<1>5. row \in Rows /\ bal[row].locked \in Nat /\ bal[row].available \in Nat /\ o \in Order
  BY <1>0, <1>4, RowExists
<1>6. unlock \in Int /\ lock \in Nat
  <2>1. client[c].draft \in Order
    BY RequestIds
  <2>2. unlock \in Int /\ lock \in Int
    BY <1>5, <2>1, UnlockInt
  <2>3. client[c].draft.price \in Nat /\ client[c].draft.qty \in Nat
    BY <2>1 DEF Order
  <2>4. client[c].draft.price * client[c].draft.qty \in Nat
    BY <2>3
  <2>5. lock \in Nat
    BY <2>3, <2>4 DEF LimitReserve, Cost
  <2> QED
    BY <2>2, <2>5
<1> HIDE DEF unlock, lock
<1>7. CASE /\ bal[row].locked >= unlock /\ bal[row].available + unlock >= lock
           /\ balLock' = [balLock EXCEPT ![row] = c]
           /\ client' = [client EXCEPT ![c].pc = "modify_redis", ![c].shift = lock - unlock]
           /\ UNCHANGED ordLock
  <2> DEFINE s == lock - unlock
  <2>1. s \in Int /\ bal[row].locked + s >= 0 /\ bal[row].available - s >= 0
    BY <1>5, <1>6, <1>7
  <2>2. client' = [client EXCEPT ![c].pc = "modify_redis", ![c].shift = s] /\ ordLock' = ordLock
        /\ balLock' = [balLock EXCEPT ![row] = c]
    BY <1>7
  <2> HIDE DEF s
  <2> QED
    BY <1>0, <1>2, <1>3, <1>4, <1>5, <2>1, <2>2, RowTaken
<1>8. CASE client' = [client EXCEPT ![c] = NoRequest] /\ ReleaseRows(c)
  <2>1. dropped' \subseteq Ids
    BY <1>2 DEF Ind, Typed, TypedActors
  <2> QED
    BY <1>2, <1>8, <2>1, RequestEnds
<1> QED
  BY <1>0, <1>7, <1>8 DEF ModifyLock, unlock, lock

\* What the commit of a request writes: its order, the end of the one it
\* cancels or replaces, and funds moved within one row that it holds.
LEMMA RequestWrites ==
    ASSUME Ind, NEW c \in Clients, RequestCommit(c)
    PROVE  /\ orders' \in [Ids -> Order]
           /\ \A id \in Ids :
                  /\ orders[id].status # "none" =>
                         /\ orders'[id].status # "none" /\ SameTerms(orders'[id], orders[id])
                         /\ orders'[id].filled = orders[id].filled
                  /\ orders[id].status = "none" =>
                         orders'[id] = orders[id] \/ (id = client[c].new /\ orders'[id] = client[c].draft)
           /\ bal' \in [Rows -> [locked : Nat, available : Nat]]
           /\ \A r \in Rows : balLock[r] # c => bal'[r] = bal[r]
           /\ \A r \in Rows : bal'[r].locked + bal'[r].available = bal[r].locked + bal[r].available
<1>0. PICK t : t = client[c]
  OBVIOUS
<1>1. /\ bal' = IF t.shift = 0 THEN bal ELSE [bal EXCEPT ![RequestRow(c)] = Shift(@, t.shift)]
      /\ orders' = [id \in Ids |-> IF id = t.new THEN t.draft
                                   ELSE IF id = t.old THEN [orders[id] EXCEPT !.status = "canceled"]
                                   ELSE orders[id]]
  BY <1>0 DEF RequestCommit
<1>4. TypedPg
  BY DEF Ind, Typed
<1>8. /\ t.new # 0 => orders[t.new].status = "none"
      /\ t.old # 0 => orders[t.old].status # "none"
      /\ t.draft \in Order
  BY <1>0, RequestIds DEF Ind, Requests, StageOk
<1>9. \A id \in Ids : id # 0 /\ orders[id] \in Order
  BY <1>4, ExchangeAssumption DEF Ids, TypedPg
<1>10. ASSUME NEW id \in Ids
       PROVE  /\ orders'[id] \in Order
              /\ orders[id].status # "none" =>
                     /\ orders'[id].status # "none" /\ SameTerms(orders'[id], orders[id])
                     /\ orders'[id].filled = orders[id].filled
              /\ orders[id].status = "none" =>
                     orders'[id] = orders[id] \/ (id = client[c].new /\ orders'[id] = client[c].draft)
  <2>1. CASE id = t.new
    <3>1. orders'[id] = t.draft /\ orders[id].status = "none"
      BY <1>1, <1>8, <1>9, <2>1
    <3> QED
      BY <1>0, <1>8, <2>1, <3>1
  <2>2. CASE id # t.new /\ id = t.old
    <3>1. orders'[id] = [orders[id] EXCEPT !.status = "canceled"] /\ orders[id].status # "none"
      BY <1>1, <1>8, <1>9, <2>2
    <3>2. orders[id] \in Order
      BY <1>9
    <3>3. /\ orders'[id] \in Order /\ orders'[id].status = "canceled" /\ SameTerms(orders'[id], orders[id])
          /\ orders'[id].filled = orders[id].filled
      BY <3>1, <3>2 DEF Order, SameTerms, Statuses
    <3> QED
      BY <3>1, <3>3
  <2>3. CASE id # t.new /\ id # t.old
    <3>1. orders'[id] = orders[id]
      BY <1>1, <2>3
    <3> QED
      BY <1>9, <3>1 DEF SameTerms
  <2> QED
    BY <2>1, <2>2, <2>3
<1>11. orders' \in [Ids -> Order]
  <2>1. DOMAIN orders' = Ids /\ \A id \in Ids : orders'[id] \in Order
    BY <1>1, <1>10
  <2>2. orders' = [id \in Ids |-> orders'[id]]
    BY <1>1
  <2> QED
    BY <2>1, <2>2
<1>12. /\ bal' \in [Rows -> [locked : Nat, available : Nat]]
       /\ \A r \in Rows : balLock[r] # c => bal'[r] = bal[r]
       /\ \A r \in Rows : bal'[r].locked + bal'[r].available = bal[r].locked + bal[r].available
  <2>1. CASE t.shift = 0
    BY <1>1, <1>4, <2>1 DEF TypedPg
  <2>2. CASE t.shift # 0
    <3>1. PICK row : row = RequestRow(c)
      OBVIOUS
    <3>2. /\ row \in Rows /\ balLock[row] = c
          /\ bal[row].locked + t.shift >= 0 /\ bal[row].available - t.shift >= 0
      BY <1>0, <2>2, <3>1 DEF Ind, Reserved, ReserveOk
    <3>3. t.shift \in Int
      BY <1>0, RequestIds
    <3> DEFINE b == [locked |-> bal[row].locked + t.shift, available |-> bal[row].available - t.shift]
    <3>4. bal' = [bal EXCEPT ![row] = b]
      BY <1>1, <2>2, <3>1 DEF Shift
    <3>5. bal[row].locked \in Nat /\ bal[row].available \in Nat
      BY <1>4, <3>2 DEF TypedPg
    <3>6. /\ b \in [locked : Nat, available : Nat]
          /\ b.locked + b.available = bal[row].locked + bal[row].available
      BY <3>2, <3>3, <3>5
    <3> HIDE DEF b
    <3> QED
      BY <1>4, <3>2, <3>4, <3>6 DEF TypedPg
  <2> QED
    BY <2>1, <2>2
<1> QED
  BY <1>10, <1>11, <1>12

\* The commit of a request.
LEMMA RequestCommitKeeps ==
    ASSUME Ind, NEW c \in Clients, RequestCommit(c), edition' = edition
    PROVE  Ind'
<1>0. PICK t : t = client[c]
  OBVIOUS
<1>1. /\ bal' = IF t.shift = 0 THEN bal ELSE [bal EXCEPT ![RequestRow(c)] = Shift(@, t.shift)]
      /\ orders' = [id \in Ids |-> IF id = t.new THEN t.draft
                                   ELSE IF id = t.old THEN [orders[id] EXCEPT !.status = "canceled"]
                                   ELSE orders[id]]
      /\ client' = [client EXCEPT ![c] = NoRequest]
      /\ ReleaseRows(c)
  BY <1>0 DEF RequestCommit
<1>2. UNCHANGED <<trades, nextId, redis, worker, dropped>>
  BY DEF RequestCommit
<1>3. /\ trades' = trades /\ nextId' = nextId /\ queue' = queue /\ book' = book /\ hash' = hash /\ seq' = seq
      /\ worker' = worker /\ dropped' = dropped
  BY <1>2 DEF redis
<1>4. client \in [Clients -> Request] /\ TypedActors /\ TypedPg /\ c \in Actors
  BY DEF Ind, Typed, TypedActors, Actors
<1>5. NoRequest \in Request /\ NoRequest.pc = "idle" /\ NoRequest.old = 0 /\ NoRequest.new = 0 /\ NoRequest.shift = 0
  BY IdleTyped DEF NoRequest
<1>6. /\ client' \in [Clients -> Request] /\ client'[c] = NoRequest
      /\ \A d \in Clients \ {c} : client'[d] = client[d]
  BY <1>1, <1>4, <1>5, ClientIs
<1>7. /\ balLock' \in [Rows -> Actors \cup {NoOne}] /\ ordLock' \in [Ids -> Actors \cup {NoOne}]
      /\ \A r \in Rows : balLock[r] # c => balLock'[r] = balLock[r]
  BY <1>1, <1>4, Released
<1>10. /\ orders' \in [Ids -> Order]
       /\ \A id \in Ids :
              /\ orders[id].status # "none" =>
                     orders'[id].status # "none" /\ SameTerms(orders'[id], orders[id])
              /\ orders[id].status = "none" =>
                     orders'[id] = orders[id] \/ (id = client[c].new /\ orders'[id] = client[c].draft)
  BY RequestWrites
<1>12. /\ bal' \in [Rows -> [locked : Nat, available : Nat]]
       /\ \A r \in Rows : balLock[r] # c => bal'[r] = bal[r]
       /\ \A r \in Rows : bal'[r].locked + bal'[r].available = bal[r].locked + bal[r].available
  BY RequestWrites
<1>13. ClientFrame(c)
  <2>1. \A r \in Rows : balLock[r] \notin {NoOne, c} => balLock'[r] = balLock[r]
    BY <1>7
  <2>2. nextId' = nextId /\ client'[c].new = 0
    BY <1>3, <1>5, <1>6
  <2> QED
    BY <1>3, <1>6, <1>10, <1>12, <2>1, <2>2 DEF ClientFrame
<1>14. PostFrame
  BY <1>3, <1>5, <1>6, PostOf
<1>15. Typed'
  <2>1. TypedPg'
    BY <1>3, <1>4, <1>7, <1>10, <1>12 DEF TypedPg
  <2>2. TypedRedis' /\ TypedActors'
    BY <1>3, <1>6 DEF Ind, Typed, TypedRedis, TypedActors
  <2> QED
    BY <2>1, <2>2 DEF Typed
<1>16. StageOk(c)' /\ ReserveOk(c)'
  BY <1>5, <1>6 DEF StageOk, ReserveOk, PlacePCs, CancelPCs, ModifyPCs
<1> QED
  BY <1>13, <1>14, <1>15, <1>16, ClientStep

\* Every step of a request keeps the invariant.
LEMMA RequestKeeps ==
    ASSUME Ind, NEW c \in Clients, RequestBegins(c) \/ RequestStep(c) \/ RequestDies(c), edition' = edition
    PROVE  Ind'
<1>1. CASE RequestBegins(c)
  BY <1>1, PlaceLockKeeps, CancelReadKeeps, ModifyBeginKeeps DEF RequestBegins
<1>2. CASE RequestStep(c)
  BY <1>2, PlaceEnqueueKeeps, PlaceHashKeeps, CancelLockKeeps, CancelUnlockKeeps, CancelUpdateKeeps,
     CancelRedisKeeps, ModifyLockKeeps, ModifyRedisKeeps, RequestCommitKeeps DEF RequestStep
<1>3. CASE RequestDies(c)
  BY <1>3, RequestRollbackKeeps DEF RequestDies
<1> QED
  BY <1>1, <1>2, <1>3

-----------------------------------------------------------------------------
(* What a step of the worker keeps of the requests and the ledger.         *)

WorkerFrame ==
    /\ client' = client /\ nextId' = nextId
    /\ \A id \in Ids : orders[id].status # "none" =>
           orders'[id].status # "none" /\ SameTerms(orders'[id], orders[id])
    /\ \A id \in Ids : orders[id].status = "none" => orders'[id] = orders[id]
    /\ \A r \in Rows : balLock[r] \in Clients => balLock'[r] = balLock[r] /\ bal'[r] = bal[r]

\* A step of the worker keeps the requests and what they reserve.
LEMMA WorkerSteady ==
    ASSUME Ind, WorkerFrame
    PROVE  Steady /\ Committed' /\ Requests' /\ Reserved'
<1>1. Steady
  <2>1. nextId \in Nat
    BY ExchangeAssumption DEF Ind, Typed, TypedActors
  <2>2. \A id \in Ids : orders[id].status = "none" => orders'[id].status = "none"
    BY DEF WorkerFrame
  <2> QED
    BY <2>1, <2>2 DEF WorkerFrame, Steady
<1>2. Committed'
  <2> SUFFICES ASSUME NEW id \in Ids
               PROVE  /\ orders'[id].status = "none" => orders'[id].filled = 0
                      /\ orders'[id].status # "none" => id < nextId' /\ OrderOk(orders[id])'
    BY DEF Committed
  <2>1. CASE orders[id].status = "none"
    BY <2>1 DEF WorkerFrame, Ind, Committed
  <2>2. CASE orders[id].status # "none"
    <3>1. orders'[id].status # "none" /\ SameTerms(orders'[id], orders[id]) /\ id < nextId' /\ OrderOk(orders[id])
      BY <2>2 DEF WorkerFrame, Ind, Committed
    <3>2. OrderOk(orders[id])'
      BY <3>1 DEF OrderOk, PayRow, SameTerms
    <3> QED
      BY <3>1, <3>2
  <2> QED
    BY <2>1, <2>2
<1>3. ASSUME NEW c \in Clients
      PROVE  /\ client[c].old # 0 => client[c].old \in Ids /\ orders[client[c].old].status # "none"
             /\ client[c].new # 0 => client[c].new \in Ids
  <2>1. client[c] \in Request /\ StageOk(c)
    BY DEF Ind, Typed, TypedActors, Requests
  <2>2. client[c].old \in 0 .. MaxOrders /\ client[c].new \in 0 .. MaxOrders
    BY <2>1 DEF Request
  <2>3. \A x \in 0 .. MaxOrders : x # 0 => x \in Ids
    BY ExchangeAssumption DEF Ids
  <2> QED
    BY <2>1, <2>2, <2>3 DEF StageOk
<1>4. ASSUME NEW c \in Clients
      PROVE  StageOk(c)'
  <2>1. PICK t : t = client[c]
    OBVIOUS
  <2>2. StageOk(c)
    BY DEF Ind, Requests
  <2>3. t.new # 0 => t.new < nextId' /\ orders'[t.new].status = "none"
    BY <1>3, <2>1, <2>2 DEF StageOk, WorkerFrame
  <2>4. t.old # 0 => orders'[t.old].status # "none"
    BY <1>3, <2>1 DEF WorkerFrame
  <2>5. t = client'[c]
    BY <2>1 DEF WorkerFrame
  <2>6. OrderOk(client[c].draft)' <=> OrderOk(client[c].draft)
    BY <2>1, <2>5 DEF OrderOk, PayRow
  <2> QED
    BY <2>1, <2>2, <2>3, <2>4, <2>5, <2>6 DEF StageOk
<1>5. Requests'
  <2>1. \A c, d \in Clients : client'[c].new # 0 /\ client'[c].new = client'[d].new => c = d
    BY DEF Ind, Requests, WorkerFrame
  <2> QED
    BY <1>4, <2>1 DEF Requests
<1>6. ASSUME NEW c \in Clients
      PROVE  ReserveOk(c)'
  <2>1. ReserveOk(c) /\ client' = client
    BY DEF Ind, Reserved, WorkerFrame
  <2>2. CASE client[c].shift = 0
    BY <2>1, <2>2 DEF ReserveOk
  <2>3. CASE client[c].shift # 0
    <3>1. /\ RequestRow(c) \in Rows /\ balLock[RequestRow(c)] = c
          /\ bal[RequestRow(c)].locked + client[c].shift >= 0
          /\ bal[RequestRow(c)].available - client[c].shift >= 0
      BY <2>1, <2>3 DEF ReserveOk
    <3>2. client[c].old # 0 => SameTerms(orders'[client[c].old], orders[client[c].old])
      BY <1>3 DEF WorkerFrame
    <3>3. RequestRow(c)' = RequestRow(c)
      BY <2>1, <3>2 DEF RequestRow, PayRow, SameTerms
    <3>4. balLock'[RequestRow(c)] = c /\ bal'[RequestRow(c)] = bal[RequestRow(c)]
      BY <3>1 DEF WorkerFrame
    <3> QED
      BY <2>1, <3>1, <3>3, <3>4 DEF ReserveOk
  <2> QED
    BY <2>2, <2>3
<1> QED
  BY <1>1, <1>2, <1>5, <1>6 DEF Reserved

\* A step of the worker that commits nothing.
LEMMA WorkerPlain ==
    ASSUME Ind, TypedPg', client' = client, nextId' = nextId, bal' = bal, orders' = orders, trades' = trades,
           \A r \in Rows : balLock[r] \in Clients => balLock'[r] = balLock[r]
    PROVE  Steady /\ Committed' /\ Requests' /\ Reserved' /\ Traded' /\ Held'
<1>1. WorkerFrame
  <2>1. \A id \in Ids : orders'[id] = orders[id] /\ SameTerms(orders'[id], orders[id])
    BY DEF SameTerms
  <2>2. \A r \in Rows : bal'[r] = bal[r]
    OBVIOUS
  <2> QED
    BY <2>1, <2>2 DEF WorkerFrame
<1>2. Steady /\ Committed' /\ Requests' /\ Reserved'
  BY <1>1, WorkerSteady
<1>3. TypedPg /\ trades \in Seq(Trade) /\ Traded /\ Held
  BY DEF Ind, Typed, TypedPg
<1>4. Traded'
  BY <1>2, <1>3, TradedKept
<1>5. Held'
  BY <1>2, <1>3, HeldKept
<1> QED
  BY <1>2, <1>4, <1>5

\* A step of the worker that adds no entry.
LEMMA PostOfWorker ==
    ASSUME client' = client, book' \subseteq book, seq' = seq, queue' = queue,
           worker'.pc # "idle" => worker.pc # "idle" /\ worker'.msg = worker.msg
    PROVE  PostFrame
BY DEF PostFrame

\* What is left to show of a step of the worker that commits nothing.
LEMMA WorkerStays ==
    ASSUME Ind, Typed', client' = client, nextId' = nextId, bal' = bal, orders' = orders, trades' = trades,
           \A r \in Rows : balLock[r] \in Clients => balLock'[r] = balLock[r],
           book' \subseteq book, seq' = seq, queue' = queue,
           worker'.pc # "idle" => worker.pc # "idle" /\ worker'.msg = worker.msg,
           Batch', Account', Summed'
    PROVE  Ind'
<1>1. Steady /\ Committed' /\ Requests' /\ Reserved' /\ Traded' /\ Held'
  BY WorkerPlain DEF Typed
<1>2. PostFrame
  BY PostOfWorker
<1>3. Posted' /\ Once'
  BY <1>1, <1>2, PostKept DEF Ind, Typed
<1> QED
  BY <1>1, <1>3 DEF Ind

\* The idle worker.
LEMMA IdleIs ==
    /\ IdleWorker \in WorkerState /\ IdleWorker.pc = "idle" /\ IdleWorker.fills = <<>> /\ IdleWorker.k = 0
    /\ IdleWorker.acc = Untouched /\ IdleWorker.left = 0 /\ IdleWorker.msg = NoMessage
    /\ \A r \in Rows : Untouched[r] = [locked |-> 0, available |-> 0]
<1>1. Untouched \in [Rows -> Amounts] /\ \A r \in Rows : Untouched[r] = [locked |-> 0, available |-> 0]
  BY DEF Untouched, Amounts
<1>2. <<>> \in Seq(Fill)
  BY EmptySeq
<1> QED
  BY <1>1, <1>2 DEF IdleWorker, WorkerState, NoMessage

\* A worker that is idle has nothing in hand.
LEMMA IdleNow ==
    ASSUME worker' = IdleWorker, \A r \in Rows : bal'[r].locked \in Nat
    PROVE  Batch' /\ Account' /\ Summed'
<1>1. /\ worker'.pc = "idle" /\ worker'.fills = <<>> /\ worker'.k = 0 /\ worker'.acc = Untouched
  BY IdleIs
<1>2. Batch'
  BY <1>1, IdleIs DEF Batch, BatchPCs, SettlePCs, IdleWorker, Untouched
<1>3. Account'
  <2>1. \A r \in Rows : bal'[r].locked + Untouched[r].locked >= 0 /\ Untouched[r].available >= 0
    BY IdleIs
  <2>2. \A r \in Rows : Untouched[r] = [locked |-> 0, available |-> 0]
    BY IdleIs
  <2>3. Untouched' = Untouched
    BY DEF Untouched
  <2> QED
    BY <1>1, <2>1, <2>2, <2>3 DEF Account
<1>4. Summed'
  BY <1>1 DEF Summed, SettlePCs
<1> QED
  BY <1>2, <1>3, <1>4

\* The rollback of the worker leaves nothing in PostgreSQL.
LEMMA WorkerFailsKeeps ==
    ASSUME Ind, WorkerFails, worker.pc # "idle", edition' = edition
    PROVE  Ind'
<1>1. worker' = IdleWorker /\ dropped' = dropped \cup {worker.msg.id} /\ ReleaseRows(Worker)
  BY DEF WorkerFails
<1>2. UNCHANGED <<pg, client, nextId, redis>>
  BY DEF WorkerFails
<1>3. /\ bal' = bal /\ orders' = orders /\ trades' = trades /\ client' = client /\ nextId' = nextId
      /\ queue' = queue /\ book' = book /\ hash' = hash /\ seq' = seq
  BY <1>2 DEF pg, redis
<1>4. TypedPg /\ Worker \in Actors
  BY DEF Ind, Typed, Actors
<1>5. /\ balLock' \in [Rows -> Actors \cup {NoOne}] /\ ordLock' \in [Ids -> Actors \cup {NoOne}]
      /\ \A r \in Rows : balLock[r] # Worker => balLock'[r] = balLock[r]
  BY <1>1, <1>4, Released
<1>6. worker.msg.id \in Ids
  BY DEF Ind, Posted, MessageRow
<1>7. Typed'
  <2>1. TypedPg'
    BY <1>3, <1>4, <1>5 DEF TypedPg
  <2>2. TypedRedis'
    BY <1>3 DEF Ind, Typed, TypedRedis
  <2>3. worker' \in WorkerState
    BY <1>1, IdleIs
  <2>4. TypedActors'
    BY <1>1, <1>3, <1>6, <2>3 DEF Ind, Typed, TypedActors
  <2> QED
    BY <2>1, <2>2, <2>4 DEF Typed
<1>8. Batch' /\ Account' /\ Summed'
  BY <1>1, <1>7, IdleNow DEF Typed, TypedPg
<1>9. worker'.pc = "idle"
  BY <1>1, IdleIs
<1>10. \A r \in Rows : balLock[r] \in Clients => balLock'[r] = balLock[r]
  BY <1>5, ExchangeAssumption
<1> QED
  BY <1>3, <1>7, <1>8, <1>9, <1>10, WorkerStays

-----------------------------------------------------------------------------
(* The steps of the worker.                                                *)

\* The batch stays good while it is settled.
LEMMA BatchOkLater ==
    ASSUME worker \in WorkerState, Steady, BatchOk(worker), worker'.fills = worker.fills, worker'.msg = worker.msg
    PROVE  BatchOk(worker)'
<1>1. PICK fs, msg : fs = worker.fills /\ msg = worker.msg
  OBVIOUS
<1>2. fs \in Seq(Fill)
  BY <1>1 DEF WorkerState
<1>3. ASSUME NEW i \in 1 .. Len(fs) - 1
      PROVE  MakerOk(msg, fs[i])'
  <2>1. fs[i] \in Fill
    BY <1>2
  <2>2. fs[i].id \in Ids
    BY <2>1 DEF Fill
  <2>3. MakerOk(msg, fs[i])
    BY <1>1 DEF BatchOk
  <2> QED
    BY <2>2, <2>3, ListedLater DEF MakerOk
<1>4. ASSUME NEW i \in 1 .. Len(worker'.fills) - 1
      PROVE  MakerOk(worker.msg, worker.fills[i])'
  <2>1. MakerOk(msg, fs[i])'
    BY <1>1, <1>3
  <2> QED
    BY <1>1, <2>1 DEF MakerOk, Listed
<1> QED
  BY <1>1, <1>4 DEF BatchOk

\* A message, a batch and a place in it.
LEMMA WorkerParts ==
    ASSUME Ind
    PROVE  /\ worker \in WorkerState /\ worker.fills \in Seq(Fill) /\ Len(worker.fills) \in Nat /\ worker.k \in Nat
           /\ worker.acc \in [Rows -> Amounts] /\ worker.left \in Nat
           /\ \A i \in 1 .. Len(worker.fills) :
                  /\ worker.fills[i] \in Fill /\ worker.fills[i].id \in Ids /\ worker.fills[i].price \in Nat
                  /\ worker.fills[i].qty \in Nat /\ worker.fills[i].quote \in Nat
           /\ worker.pc # "idle" => worker.msg \in MessageRow /\ worker.msg.id \in Ids
<1>1. worker \in WorkerState
  BY DEF Ind, Typed, TypedActors
<1>2. /\ worker.fills \in Seq(Fill) /\ worker.k \in Nat /\ worker.acc \in [Rows -> Amounts] /\ worker.left \in Nat
  BY <1>1 DEF WorkerState
<1>3. Len(worker.fills) \in Nat /\ \A i \in 1 .. Len(worker.fills) : worker.fills[i] \in Fill
  BY <1>2
<1>4. \A f \in Fill : f.id \in Ids /\ f.price \in Nat /\ f.qty \in Nat /\ f.quote \in Nat
  BY DEF Fill
<1>5. worker.pc # "idle" => worker.msg \in MessageRow
  BY DEF Ind, Posted
<1> QED
  BY <1>1, <1>2, <1>3, <1>4, <1>5 DEF MessageRow

\* The worker goes on with the batch it has.
LEMMA Proceeds ==
    ASSUME Ind, worker.pc \in BatchPCs, NEW p \in BatchPCs, NEW k \in Nat,
           worker' = [worker EXCEPT !.pc = p, !.k = k]
    PROVE  /\ worker' \in WorkerState /\ worker'.pc = p /\ worker'.k = k /\ worker'.fills = worker.fills
           /\ worker'.msg = worker.msg /\ worker'.acc = worker.acc /\ worker.pc # "idle" /\ p # "idle"
<1>1. worker \in WorkerState
  BY WorkerParts
<1>2. worker.pc # "idle" /\ p # "idle"
  BY DEF BatchPCs, SettlePCs
<1> QED
  BY <1>1, <1>2 DEF WorkerState

\* A transaction that has not touched a balance.
LEMMA AccountNone ==
    ASSUME worker'.acc = Untouched, worker'.pc \notin {"get", "settle"}, \A r \in Rows : bal'[r].locked \in Nat
    PROVE  Account'
<1>1. \A r \in Rows : Untouched[r] = [locked |-> 0, available |-> 0]
  BY IdleIs
<1>2. Untouched' = Untouched
  BY DEF Untouched
<1>3. \A r \in Rows : bal'[r].locked + Untouched[r].locked >= 0 /\ Untouched[r].available >= 0
  BY <1>1
<1> QED
  BY <1>1, <1>2, <1>3 DEF Account

\* The read of the makers' users.
LEMMA WorkerUsersKeeps ==
    ASSUME Ind, WorkerUsers, edition' = edition
    PROVE  Ind'
<1>1. worker.pc = "users" /\ worker.pc # "idle" /\ worker.pc \in BatchPCs
  BY DEF WorkerUsers, BatchPCs
<1>2. CASE WorkerFails
  BY <1>1, <1>2, WorkerFailsKeeps
<1>3. CASE /\ WorkerGoto("flush", worker)
           /\ UNCHANGED <<pg, balLock, ordLock, client, nextId, redis, dropped>>
  <2>1. worker' = [worker EXCEPT !.pc = "flush"]
    BY <1>3 DEF WorkerGoto
  <2>2. UNCHANGED <<pg, balLock, ordLock, client, nextId, redis, dropped>>
    BY <1>3
  <2>3. /\ bal' = bal /\ orders' = orders /\ trades' = trades /\ balLock' = balLock /\ ordLock' = ordLock
        /\ client' = client /\ nextId' = nextId
        /\ queue' = queue /\ book' = book /\ hash' = hash /\ seq' = seq /\ dropped' = dropped
    BY <2>2 DEF pg, redis
  <2>4. worker.k = 0 /\ BatchOk(worker) /\ worker.acc = Untouched
    BY <1>1 DEF Ind, Batch, Account, SettlePCs
  <2>5. worker \in WorkerState /\ worker.k \in Nat /\ "flush" \in BatchPCs
    BY WorkerParts DEF BatchPCs
  <2>6. worker' = [worker EXCEPT !.pc = "flush", !.k = worker.k]
    BY <2>1, <2>5 DEF WorkerState
  <2>7. /\ worker' \in WorkerState /\ worker'.pc = "flush" /\ worker'.k = 0 /\ worker'.fills = worker.fills
        /\ worker'.msg = worker.msg /\ worker'.acc = Untouched
    BY <1>1, <2>4, <2>5, <2>6, Proceeds
  <2>8. Typed'
    <3>1. TypedPg' /\ TypedRedis' /\ TypedActors'
      BY <2>3, <2>7 DEF Ind, Typed, TypedPg, TypedRedis, TypedActors
    <3> QED
      BY <3>1 DEF Typed
  <2>9. Steady
    BY <2>3, <2>8, WorkerPlain DEF Typed
  <2>10. Batch'
    <3>1. BatchOk(worker)'
      BY <2>4, <2>5, <2>7, <2>9, BatchOkLater
    <3> QED
      BY <2>7, <3>1 DEF Batch, BatchPCs, SettlePCs
  <2>11. Account' /\ Summed'
    <3>1. \A r \in Rows : bal'[r].locked \in Nat
      BY <2>8 DEF Typed, TypedPg
    <3> QED
      BY <2>7, <3>1, AccountNone DEF Summed, SettlePCs
  <2> QED
    BY <1>1, <2>3, <2>7, <2>8, <2>10, <2>11, WorkerStays
<1> QED
  BY <1>2, <1>3 DEF WorkerUsers

\* The INSERT of the trades.
LEMMA WorkerFlushKeeps ==
    ASSUME Ind, WorkerFlush, edition' = edition
    PROVE  Ind'
<1>1. worker.pc = "flush" /\ worker.pc # "idle" /\ worker.pc \in BatchPCs
  BY DEF WorkerFlush, BatchPCs
<1>2. CASE WorkerFails
  BY <1>1, <1>2, WorkerFailsKeeps
<1>3. CASE /\ \A k \in DOMAIN worker.fills : orders[worker.fills[k].id].status # "none"
           /\ worker' = [worker EXCEPT !.pc = "orders", !.k = 1]
           /\ UNCHANGED <<pg, balLock, ordLock, client, nextId, redis, dropped>>
  <2>1. UNCHANGED <<pg, balLock, ordLock, client, nextId, redis, dropped>>
    BY <1>3
  <2>2. /\ bal' = bal /\ orders' = orders /\ trades' = trades /\ balLock' = balLock /\ ordLock' = ordLock
        /\ client' = client /\ nextId' = nextId
        /\ queue' = queue /\ book' = book /\ hash' = hash /\ seq' = seq /\ dropped' = dropped
    BY <2>1 DEF pg, redis
  <2>3. BatchOk(worker) /\ worker.acc = Untouched
    BY <1>1 DEF Ind, Batch, Account, SettlePCs
  <2>4. worker \in WorkerState /\ Len(worker.fills) \in Nat /\ DOMAIN worker.fills = 1 .. Len(worker.fills)
    BY WorkerParts, LenProperties
  <2>5. /\ worker' \in WorkerState /\ worker'.pc = "orders" /\ worker'.k = 1 /\ worker'.fills = worker.fills
        /\ worker'.msg = worker.msg /\ worker'.acc = Untouched
    <3>1. "orders" \in BatchPCs
      BY DEF BatchPCs
    <3> QED
      BY <1>1, <1>3, <2>3, <3>1, Proceeds
  <2>6. Typed'
    <3>1. TypedPg' /\ TypedRedis' /\ TypedActors'
      BY <2>2, <2>5 DEF Ind, Typed, TypedPg, TypedRedis, TypedActors
    <3> QED
      BY <3>1 DEF Typed
  <2>7. Steady
    BY <2>2, <2>6, WorkerPlain DEF Typed
  <2>8. Batch'
    <3>1. BatchOk(worker)'
      BY <2>3, <2>4, <2>5, <2>7, BatchOkLater
    <3>2. 1 \in 1 .. Len(worker.fills)
      BY <2>3, <2>4 DEF BatchOk
    <3>3. \A i \in 1 .. Len(worker.fills) : orders[worker.fills[i].id].status # "none"
      BY <1>3, <2>4
    <3> QED
      BY <2>2, <2>5, <3>1, <3>2, <3>3 DEF Batch, BatchPCs, SettlePCs
  <2>9. Account' /\ Summed'
    <3>1. \A r \in Rows : bal'[r].locked \in Nat
      BY <2>6 DEF Typed, TypedPg
    <3> QED
      BY <2>5, <3>1, AccountNone DEF Summed, SettlePCs
  <2> QED
    BY <1>1, <2>2, <2>5, <2>6, <2>8, <2>9, WorkerStays
<1> QED
  BY <1>2, <1>3 DEF WorkerFlush

\* An order row FOR UPDATE.
LEMMA WorkerLockOrderKeeps ==
    ASSUME Ind, WorkerLockOrder, edition' = edition
    PROVE  Ind'
<1>1. /\ worker.pc = "orders" /\ worker.pc # "idle" /\ worker.pc \in BatchPCs
      /\ ordLock' = [ordLock EXCEPT ![Party.id] = Worker]
      /\ worker' = IF IsMaker THEN [worker EXCEPT !.k = @ + 1] ELSE [worker EXCEPT !.pc = "pay", !.k = 1]
  BY DEF WorkerLockOrder, BatchPCs
<1>2. UNCHANGED <<pg, balLock, client, nextId, redis, dropped>>
  BY DEF WorkerLockOrder
<1>3. /\ bal' = bal /\ orders' = orders /\ trades' = trades /\ balLock' = balLock
      /\ client' = client /\ nextId' = nextId
      /\ queue' = queue /\ book' = book /\ hash' = hash /\ seq' = seq /\ dropped' = dropped
  BY <1>2 DEF pg, redis
<1>4. /\ BatchOk(worker) /\ worker.acc = Untouched /\ worker.k \in 1 .. Len(worker.fills)
      /\ \A i \in 1 .. Len(worker.fills) : orders[worker.fills[i].id].status # "none"
  BY <1>1 DEF Ind, Batch, Account, SettlePCs
<1>5. worker \in WorkerState /\ Len(worker.fills) \in Nat
  BY WorkerParts
<1>6. PICK p \in {"orders", "pay"}, k \in 1 .. Len(worker.fills) :
          /\ worker' = [worker EXCEPT !.pc = p, !.k = k]
          /\ p = "pay" => k = 1
  <2>1. CASE IsMaker
    <3>1. worker.k + 1 \in 1 .. Len(worker.fills)
      BY <1>4, <1>5, <2>1 DEF IsMaker
    <3>2. worker' = [worker EXCEPT !.pc = "orders", !.k = worker.k + 1]
      BY <1>1, <1>5, <2>1 DEF WorkerState
    <3> QED
      BY <3>1, <3>2
  <2>2. CASE ~IsMaker
    <3>1. 1 \in 1 .. Len(worker.fills)
      BY <1>4, <1>5
    <3>2. worker' = [worker EXCEPT !.pc = "pay", !.k = 1]
      BY <1>1, <2>2
    <3> QED
      BY <3>1, <3>2
  <2> QED
    BY <2>1, <2>2
<1>7. /\ worker' \in WorkerState /\ worker'.pc = p /\ worker'.k = k /\ worker'.fills = worker.fills
      /\ worker'.msg = worker.msg /\ worker'.acc = Untouched
  <2>1. p \in BatchPCs /\ k \in Nat
    BY <1>5 DEF BatchPCs, SettlePCs
  <2> QED
    BY <1>1, <1>4, <1>6, <2>1, Proceeds
<1>8. Typed'
  <2>1. Party.id \in Ids
    BY <1>4, WorkerParts DEF Party
  <2>2. TypedPg'
    BY <1>1, <1>3 DEF Ind, Typed, TypedPg, Actors
  <2>3. TypedRedis' /\ TypedActors'
    BY <1>3, <1>7 DEF Ind, Typed, TypedRedis, TypedActors
  <2> QED
    BY <2>2, <2>3 DEF Typed
<1>9. Steady
  BY <1>3, <1>8, WorkerPlain DEF Typed
<1>10. Batch'
  <2>1. BatchOk(worker)'
    BY <1>4, <1>5, <1>7, <1>9, BatchOkLater
  <2> QED
    BY <1>3, <1>4, <1>6, <1>7, <2>1 DEF Batch, BatchPCs, SettlePCs
<1>11. Account'
  <2>1. \A r \in Rows : bal'[r].locked \in Nat
    BY <1>8 DEF Typed, TypedPg
  <2> QED
    BY <1>6, <1>7, <2>1, AccountNone
<1>12. Summed'
  <2> SUFFICES ASSUME worker'.pc \in SettlePCs, NEW r \in Rows
               PROVE  (worker.acc[r].locked + worker.acc[r].available = SumFunctionOnSet(Effects(r), 1 .. Settled))'
    BY DEF Summed
  <2>1. worker'.pc = "pay" /\ worker'.k = 1
    BY <1>6, <1>7 DEF SettlePCs
  <2>2. Settled' = 0 /\ 1 .. 0 = {}
    BY <2>1 DEF Settled
  <2>3. Untouched[r].locked + Untouched[r].available = 0
    BY IdleIs
  <2>4. SumFunctionOnSet(Effects(r)', {}) = 0
    BY SumEmpty
  <2> QED
    BY <1>7, <2>2, <2>3, <2>4
<1> QED
  BY <1>1, <1>3, <1>7, <1>8, <1>10, <1>11, <1>12, WorkerStays

\* A balance row FOR UPDATE.
LEMMA WorkerLockBalanceKeeps ==
    ASSUME Ind, WorkerLockBalance, edition' = edition
    PROVE  Ind'
<1>1. /\ worker.pc \in {"pay", "get"} /\ worker.pc # "idle" /\ worker.pc \in BatchPCs
      /\ \/ WantedRow \notin Rows /\ UNCHANGED balLock
         \/ /\ WantedRow \in Rows
            /\ balLock[WantedRow] \in {NoOne, Worker}
            /\ balLock' = [balLock EXCEPT ![WantedRow] = Worker]
      /\ worker' = [worker EXCEPT !.pc = IF @ = "pay" THEN "get" ELSE "settle"]
  BY DEF WorkerLockBalance, BatchPCs, SettlePCs
<1>2. UNCHANGED <<pg, ordLock, client, nextId, redis, dropped>>
  BY DEF WorkerLockBalance
<1>3. /\ bal' = bal /\ orders' = orders /\ trades' = trades /\ ordLock' = ordLock
      /\ client' = client /\ nextId' = nextId
      /\ queue' = queue /\ book' = book /\ hash' = hash /\ seq' = seq /\ dropped' = dropped
  BY <1>2 DEF pg, redis
<1>4. /\ BatchOk(worker) /\ worker.k \in 1 .. Len(worker.fills)
      /\ \A i \in 1 .. Len(worker.fills) : orders[worker.fills[i].id].status # "none"
  BY <1>1 DEF Ind, Batch, SettlePCs
<1>5. worker \in WorkerState /\ Len(worker.fills) \in Nat
  BY WorkerParts
<1> DEFINE p == IF worker.pc = "pay" THEN "get" ELSE "settle"
<1>6. p \in {"get", "settle"} /\ p \in BatchPCs /\ p \in SettlePCs
  BY DEF BatchPCs, SettlePCs
<1>7. /\ worker' \in WorkerState /\ worker'.pc = p /\ worker'.k = worker.k /\ worker'.fills = worker.fills
      /\ worker'.msg = worker.msg /\ worker'.acc = worker.acc
  <2>1. worker' = [worker EXCEPT !.pc = p, !.k = worker.k]
    BY <1>1, <1>5 DEF WorkerState
  <2>2. worker.k \in Nat
    BY <1>4, <1>5
  <2> HIDE DEF p
  <2> QED
    BY <1>1, <1>6, <2>1, <2>2, Proceeds
<1>8. /\ balLock' \in [Rows -> Actors \cup {NoOne}]
      /\ \A r \in Rows : balLock'[r] = balLock[r] \/ balLock'[r] = Worker
      /\ WantedRow \in Rows => balLock'[WantedRow] = Worker
      /\ \A r \in Rows : balLock[r] \in Clients => balLock'[r] = balLock[r]
  <2>1. balLock \in [Rows -> Actors \cup {NoOne}] /\ Worker \in Actors
    BY DEF Ind, Typed, TypedPg, Actors
  <2> QED
    BY <1>1, <2>1, ExchangeAssumption
<1>9. Typed'
  <2>1. TypedPg' /\ TypedRedis' /\ TypedActors'
    BY <1>3, <1>7, <1>8 DEF Ind, Typed, TypedPg, TypedRedis, TypedActors
  <2> QED
    BY <2>1 DEF Typed
<1>10. Steady
  BY <1>3, <1>8, <1>9, WorkerPlain DEF Typed
<1>11. Batch'
  <2>1. BatchOk(worker)'
    BY <1>4, <1>5, <1>7, <1>10, BatchOkLater
  <2> QED
    BY <1>3, <1>4, <1>6, <1>7, <2>1 DEF Batch, BatchPCs, SettlePCs
<1>12. PayRow(PartyOrder)' = PayRow(PartyOrder) /\ GetRow(PartyOrder)' = GetRow(PartyOrder)
  BY <1>3, <1>7 DEF PartyOrder, Party, PayRow, GetRow
<1>13. Account'
  <2>1. Account
    BY DEF Ind
  <2>2. ASSUME NEW r \in Rows
        PROVE  /\ bal'[r].locked + worker'.acc[r].locked >= 0 /\ worker'.acc[r].available >= 0
               /\ worker'.acc[r] # [locked |-> 0, available |-> 0] => balLock'[r] = Worker
    BY <1>3, <1>7, <1>8, <2>1 DEF Account
  <2>3. PayRow(PartyOrder) \in Rows => balLock'[PayRow(PartyOrder)] = Worker
    <3>1. CASE worker.pc = "pay"
      BY <1>8, <3>1 DEF WantedRow
    <3>2. CASE worker.pc = "get"
      BY <1>8, <2>1, <3>2 DEF Account
    <3> QED
      BY <1>1, <3>1, <3>2
  <2>4. worker'.pc = "settle" /\ GetRow(PartyOrder) \in Rows => balLock'[GetRow(PartyOrder)] = Worker
    BY <1>1, <1>7, <1>8 DEF WantedRow
  <2> QED
    BY <1>6, <1>7, <1>12, <2>2, <2>3, <2>4 DEF Account
<1>14. Summed'
  <2> SUFFICES ASSUME NEW r \in Rows
               PROVE  (worker.acc[r].locked + worker.acc[r].available = SumFunctionOnSet(Effects(r), 1 .. Settled))'
    BY DEF Summed
  <2>1. worker.acc[r].locked + worker.acc[r].available = SumFunctionOnSet(Effects(r), 1 .. Settled)
    BY <1>1 DEF Ind, Summed, SettlePCs
  <2>2. Settled' = Settled
    BY <1>1, <1>6, <1>7 DEF Settled
  <2>3. Effects(r)' = Effects(r)
    BY <1>3, <1>7 DEF Effects, Effect, PayRow, GetRow, Cost, Gain
  <2> QED
    BY <1>7, <2>1, <2>2, <2>3
<1> QED
  BY <1>1, <1>3, <1>7, <1>8, <1>9, <1>11, <1>13, <1>14, WorkerStays

\* The HASH of the taker's remainder.
LEMMA WorkerRestHashKeeps ==
    ASSUME Ind, WorkerRestHash, edition' = edition
    PROVE  Ind'
<1>1. /\ worker.pc = "rest_hash" /\ worker.pc # "idle"
      /\ hash' = [hash EXCEPT ![worker.msg.id] = worker.msg.qty]
      /\ worker' = [worker EXCEPT !.pc = "rest_add"]
  BY DEF WorkerRestHash, WorkerGoto
<1>2. UNCHANGED <<pg, balLock, ordLock, client, nextId, queue, book, seq, dropped>>
  BY DEF WorkerRestHash
<1>3. /\ bal' = bal /\ orders' = orders /\ trades' = trades /\ balLock' = balLock /\ ordLock' = ordLock
      /\ client' = client /\ nextId' = nextId
      /\ queue' = queue /\ book' = book /\ seq' = seq /\ dropped' = dropped
  BY <1>2 DEF pg
<1>4. worker.fills = <<>> /\ worker.k = 0 /\ worker.acc = Untouched
  BY <1>1 DEF Ind, Batch, Account, BatchPCs, SettlePCs
<1>5. worker \in WorkerState /\ worker.msg \in MessageRow
  BY <1>1, WorkerParts
<1>6. /\ worker' \in WorkerState /\ worker'.pc = "rest_add" /\ worker'.k = 0 /\ worker'.fills = <<>>
      /\ worker'.msg = worker.msg /\ worker'.acc = Untouched
  BY <1>1, <1>4, <1>5 DEF WorkerState
<1>7. Typed'
  <2>1. worker.msg.qty \in Nat
    BY <1>5 DEF MessageRow
  <2>2. TypedPg' /\ TypedActors'
    BY <1>3, <1>6 DEF Ind, Typed, TypedPg, TypedActors
  <2>3. TypedRedis'
    BY <1>1, <1>3, <2>1 DEF Ind, Typed, TypedRedis
  <2> QED
    BY <2>2, <2>3 DEF Typed
<1>8. Batch' /\ Summed'
  BY <1>6 DEF Batch, Summed, BatchPCs, SettlePCs
<1>9. Account'
  <2>1. \A r \in Rows : bal'[r].locked \in Nat
    BY <1>7 DEF Typed, TypedPg
  <2> QED
    BY <1>6, <2>1, AccountNone
<1> QED
  BY <1>1, <1>3, <1>6, <1>7, <1>8, <1>9, WorkerStays

\* The taker's remainder joins the book: the order was in the worker's hands
\* only, and its place in the queue of its price is new.
LEMMA WorkerRestAddKeeps ==
    ASSUME Ind, WorkerRestAdd, edition' = edition
    PROVE  Ind'
<1>0. PICK m : m = worker.msg
  OBVIOUS
<1> DEFINE row == [id |-> m.id, side |-> m.side, price |-> m.price, seq |-> seq + 1]
<1>1. /\ worker.pc = "rest_add" /\ worker.pc # "idle" /\ seq' = seq + 1
      /\ book' = book \cup {row}
      /\ worker' = IdleWorker
  BY <1>0 DEF WorkerRestAdd, WorkerGoto
<1>2. UNCHANGED <<pg, balLock, ordLock, client, nextId, queue, hash, dropped>>
  BY DEF WorkerRestAdd
<1>3. /\ bal' = bal /\ orders' = orders /\ trades' = trades /\ balLock' = balLock /\ ordLock' = ordLock
      /\ client' = client /\ nextId' = nextId /\ queue' = queue /\ hash' = hash /\ dropped' = dropped
  BY <1>2 DEF pg
<1>4. m \in MessageRow /\ PlaceOk(m) /\ seq \in Nat /\ book \subseteq BookRow /\ IsFiniteSet(book) /\ TypedRedis
  BY <1>0, <1>1 DEF Ind, Posted, Typed, TypedRedis
<1>5. row \in BookRow /\ row.id = m.id /\ row.side = m.side /\ row.price = m.price /\ row.seq = seq + 1 /\ m.id \in Ids
  BY <1>4 DEF MessageRow, BookRow
<1> HIDE DEF row
<1>6. worker' \in WorkerState /\ worker'.pc = "idle"
  BY <1>1, IdleIs
<1>7. Typed'
  <2>1. TypedPg' /\ TypedActors'
    BY <1>3, <1>6 DEF Ind, Typed, TypedPg, TypedActors
  <2>2. IsFiniteSet(book')
    BY <1>1, <1>4, FS_AddElement
  <2>3. book' \subseteq BookRow /\ seq' \in Nat
    BY <1>1, <1>4, <1>5
  <2>4. TypedRedis'
    BY <1>3, <2>2, <2>3 DEF Ind, Typed, TypedRedis
  <2> QED
    BY <2>1, <2>4 DEF Typed
<1>8. Steady /\ Committed' /\ Requests' /\ Reserved' /\ Traded' /\ Held'
  BY <1>3, <1>7, WorkerPlain DEF Typed
<1>9. Batch' /\ Account' /\ Summed'
  BY <1>1, <1>7, IdleNow DEF Typed, TypedPg
<1>10. Posted /\ Once
  BY DEF Ind
<1>11. Listed(row.id, row.side, row.price)
  BY <1>4, <1>5 DEF PlaceOk
<1>12. Posted'
  <2>1. ASSUME NEW i \in DOMAIN queue', queue'[i].kind = "place"
        PROVE  PlaceOk(queue[i])'
    BY <1>3, <1>10, <2>1 DEF Posted, PlaceOk, Listed
  <2>2. ASSUME NEW e \in book'
        PROVE  Listed(e.id, e.side, e.price)'
    <3>1. Listed(e.id, e.side, e.price)
      BY <1>1, <1>10, <1>11 DEF Posted
    <3> QED
      BY <1>3, <3>1 DEF Listed
  <2> QED
    BY <1>6, <2>1, <2>2 DEF Posted
<1>13. \A id : /\ Waits(id)' <=> Waits(id)
               /\ ~InHand(id)'
               /\ InBook(id)' => InBook(id) \/ id = m.id
  BY <1>1, <1>3, <1>5, <1>6 DEF Waits, InHand, InBook
<1>14. ~Waits(m.id) /\ ~InBook(m.id) /\ InHand(m.id)
  <2>1. InHand(m.id)
    BY <1>0, <1>1 DEF InHand
  <2> QED
    BY <1>5, <1>10, <2>1 DEF Once
<1>15. Once'
  <2>1. \A i, j \in DOMAIN queue' :
           queue'[i].kind = "place" /\ queue'[j].kind = "place" /\ queue'[i].id = queue'[j].id => i = j
    BY <1>3, <1>10 DEF Once
  <2>2. \A id \in Ids : (Waits(id)' => ~InHand(id)' /\ ~InBook(id)') /\ (InHand(id)' => ~InBook(id)')
    BY <1>10, <1>13, <1>14 DEF Once
  <2>3. ASSUME NEW d \in Clients, client'[d].pc = "place_enqueue"
        PROVE  (~Waits(client[d].new) /\ ~InHand(client[d].new) /\ ~InBook(client[d].new))'
    <3>1. PICK n : n = client[d].new
      OBVIOUS
    <3>2. ~Waits(n) /\ ~InHand(n) /\ ~InBook(n)
      BY <1>3, <1>10, <2>3, <3>1 DEF Once
    <3>3. n # m.id
      BY <1>14, <3>2
    <3>4. ~Waits(n)' /\ ~InHand(n)' /\ ~InBook(n)'
      BY <1>13, <3>2, <3>3
    <3> QED
      BY <1>3, <3>1, <3>4 DEF Waits, InHand, InBook
  <2>4. ASSUME NEW e \in book', NEW f \in book', e.id = f.id \/ e.seq = f.seq
        PROVE  e = f
    <3>1. \A x \in book : x.id # m.id
      BY <1>14 DEF InBook
    <3>2. \A x \in book : x.seq # seq + 1
      <4>1. \A x \in book : x.seq <= seq /\ x.seq \in Nat
        BY <1>4, <1>10 DEF Once, BookRow
      <4> QED
        BY <1>4, <4>1
    <3>3. \A x, y \in book : x.id = y.id \/ x.seq = y.seq => x = y
      BY <1>10 DEF Once
    <3> QED
      BY <1>1, <1>5, <2>4, <3>1, <3>2, <3>3
  <2>5. ASSUME NEW e \in book'
        PROVE  e.seq <= seq'
    <3>1. \A x \in book : x.seq <= seq /\ x.seq \in Nat
      BY <1>4, <1>10 DEF Once, BookRow
    <3> QED
      BY <1>1, <1>4, <1>5, <3>1
  <2> QED
    BY <2>1, <2>2, <2>3, <2>4, <2>5 DEF Once
<1> QED
  BY <1>7, <1>8, <1>9, <1>12, <1>15 DEF Ind

\* The refund: what was locked becomes available.
LEMMA WorkerRefundKeeps ==
    ASSUME Ind, WorkerRefund, edition' = edition
    PROVE  Ind'
<1>0. PICK row : row = <<worker.msg.user, "quote">>
  OBVIOUS
<1>1. /\ worker.pc = "refund" /\ worker.pc # "idle" /\ balLock[row] = NoOne
      /\ bal' = [bal EXCEPT ![row] = Shift(@, -@.locked)]
      /\ worker' = IdleWorker
  BY <1>0 DEF WorkerRefund, WorkerGoto
<1>2. UNCHANGED <<orders, trades, balLock, ordLock, client, nextId, redis, dropped>>
  BY DEF WorkerRefund
<1>3. /\ orders' = orders /\ trades' = trades /\ balLock' = balLock /\ ordLock' = ordLock
      /\ client' = client /\ nextId' = nextId /\ dropped' = dropped
      /\ queue' = queue /\ book' = book /\ hash' = hash /\ seq' = seq
  BY <1>2 DEF redis
<1>4. row \in Rows
  <2>1. worker.msg.side = "buy" /\ PlaceOk(worker.msg)
    BY <1>1 DEF Ind, Batch, Posted
  <2> QED
    BY <1>0, <2>1 DEF PlaceOk
<1>5. bal[row].locked \in Nat /\ bal[row].available \in Nat /\ bal \in [Rows -> [locked : Nat, available : Nat]]
  BY <1>4 DEF Ind, Typed, TypedPg
<1> DEFINE b == [locked |-> 0, available |-> bal[row].available + bal[row].locked]
<1>6. /\ bal' = [bal EXCEPT ![row] = b] /\ b \in [locked : Nat, available : Nat]
      /\ b.locked + b.available = bal[row].locked + bal[row].available
  <2>1. Shift(bal[row], -bal[row].locked) = b
    BY <1>5 DEF Shift
  <2>2. bal' = [bal EXCEPT ![row] = b]
    BY <1>1, <2>1
  <2> QED
    BY <1>5, <2>2
<1> HIDE DEF b
<1>7. /\ bal' \in [Rows -> [locked : Nat, available : Nat]]
      /\ \A r \in Rows : r # row => bal'[r] = bal[r]
      /\ bal'[row] = b
  BY <1>4, <1>5, <1>6
<1>8. worker' \in WorkerState /\ worker'.pc = "idle"
  BY <1>1, IdleIs
<1>9. Typed'
  <2>1. TypedPg' /\ TypedRedis' /\ TypedActors'
    BY <1>3, <1>7, <1>8 DEF Ind, Typed, TypedPg, TypedRedis, TypedActors
  <2> QED
    BY <2>1 DEF Typed
<1>10. WorkerFrame
  <2>1. \A id \in Ids : orders'[id] = orders[id] /\ SameTerms(orders'[id], orders[id])
    BY <1>3 DEF SameTerms
  <2>2. \A r \in Rows : balLock[r] \in Clients => balLock'[r] = balLock[r] /\ bal'[r] = bal[r]
    BY <1>1, <1>3, <1>7, ExchangeAssumption
  <2> QED
    BY <1>3, <2>1, <2>2 DEF WorkerFrame
<1>11. Steady /\ Committed' /\ Requests' /\ Reserved'
  BY <1>10, WorkerSteady
<1>12. Traded' /\ Held'
  <2>1. TypedPg /\ trades \in Seq(Trade) /\ Traded /\ Held /\ TypedPg'
    BY <1>9 DEF Ind, Typed, TypedPg
  <2>2. \A r \in Rows : bal'[r].locked + bal'[r].available = bal[r].locked + bal[r].available
    BY <1>6, <1>7
  <2> QED
    BY <1>3, <1>11, <2>1, <2>2, TradedKept, HeldKept
<1>13. Posted' /\ Once'
  <2>1. PostFrame
    BY <1>3, <1>8, PostOfWorker
  <2> QED
    BY <1>11, <2>1, PostKept DEF Ind, Typed
<1>14. Batch' /\ Account' /\ Summed'
  BY <1>1, <1>9, IdleNow DEF Typed, TypedPg
<1> QED
  BY <1>9, <1>11, <1>12, <1>13, <1>14 DEF Ind

\* The oldest message leaves the queue.
LEMMA WorkerPopKeeps ==
    ASSUME Ind, WorkerPop, edition' = edition
    PROVE  Ind'
<1>0. PICK m : m = Head(queue)
  OBVIOUS
<1>1. /\ worker.pc = "idle" /\ queue # <<>> /\ queue' = Tail(queue)
      /\ worker' = IF m.kind = "place" THEN [IdleWorker EXCEPT !.pc = "match", !.msg = m] ELSE worker
  BY <1>0 DEF WorkerPop
<1>2. UNCHANGED <<pg, balLock, ordLock, client, nextId, book, hash, seq, dropped>>
  BY DEF WorkerPop
<1>3. /\ bal' = bal /\ orders' = orders /\ trades' = trades /\ balLock' = balLock /\ ordLock' = ordLock
      /\ client' = client /\ nextId' = nextId /\ book' = book /\ hash' = hash /\ seq' = seq /\ dropped' = dropped
  BY <1>2 DEF pg
<1>4. queue \in Seq(MessageRow) /\ TypedRedis /\ Posted /\ Once /\ worker = IdleWorker
  BY <1>1 DEF Ind, Typed, TypedRedis, Batch
<1>5. /\ m \in MessageRow /\ queue' \in Seq(MessageRow) /\ Len(queue') = Len(queue) - 1
      /\ \A i \in 1 .. Len(queue') : queue'[i] = queue[i + 1]
  BY <1>0, <1>1, <1>4, HeadTailProperties
<1>6. /\ Len(queue) \in Nat \ {0} /\ DOMAIN queue = 1 .. Len(queue) /\ DOMAIN queue' = 1 .. Len(queue) - 1
      /\ m = queue[1]
  <2>1. Len(queue) \in Nat \ {0}
    BY <1>1, <1>4, EmptySeq
  <2> QED
    BY <1>0, <1>4, <1>5, <2>1
<1>7. \A i \in DOMAIN queue' : i + 1 \in DOMAIN queue /\ i \in Nat /\ i + 1 # 1 /\ queue'[i] = queue[i + 1]
  BY <1>5, <1>6
<1>8. /\ worker' \in WorkerState /\ worker'.fills = <<>> /\ worker'.k = 0 /\ worker'.acc = Untouched
      /\ m.kind = "place" => worker'.pc = "match" /\ worker'.msg = m
      /\ m.kind # "place" => worker' = IdleWorker /\ worker'.pc = "idle"
      /\ worker'.pc \in {"match", "idle"}
  <2>1. CASE m.kind = "place"
    <3>1. worker' = [IdleWorker EXCEPT !.pc = "match", !.msg = m]
      BY <1>1, <2>1
    <3> QED
      BY <1>5, <2>1, <3>1, IdleIs DEF WorkerState
  <2>2. CASE m.kind # "place"
    BY <1>1, <1>4, <2>2, IdleIs
  <2> QED
    BY <2>1, <2>2
<1>9. Typed'
  <2>1. TypedPg' /\ TypedActors'
    BY <1>3, <1>8 DEF Ind, Typed, TypedPg, TypedActors
  <2>2. TypedRedis'
    BY <1>3, <1>4, <1>5 DEF TypedRedis
  <2> QED
    BY <2>1, <2>2 DEF Typed
<1>10. Steady /\ Committed' /\ Requests' /\ Reserved' /\ Traded' /\ Held'
  BY <1>3, <1>9, WorkerPlain DEF Typed
<1>11. Batch' /\ Summed'
  BY <1>8 DEF Batch, Summed, BatchPCs, SettlePCs, IdleWorker, Untouched
<1>12. Account'
  <2>1. \A r \in Rows : bal'[r].locked \in Nat
    BY <1>9 DEF Typed, TypedPg
  <2> QED
    BY <1>8, <2>1, AccountNone
<1>13. Posted'
  <2>1. ASSUME NEW i \in DOMAIN queue', queue'[i].kind = "place"
        PROVE  PlaceOk(queue[i])'
    <3>1. PlaceOk(queue[i + 1]) /\ queue'[i] = queue[i + 1]
      BY <1>4, <1>7, <2>1 DEF Posted
    <3> QED
      BY <1>3, <3>1 DEF PlaceOk, Listed
  <2>2. ASSUME worker'.pc # "idle"
        PROVE  worker'.msg \in MessageRow /\ PlaceOk(worker.msg)'
    <3>1. m.kind = "place" /\ worker'.msg = m
      BY <1>8, <2>2
    <3>2. PlaceOk(m)
      BY <1>4, <1>6, <3>1 DEF Posted
    <3> QED
      BY <1>3, <1>5, <3>1, <3>2 DEF PlaceOk, Listed
  <2>3. ASSUME NEW e \in book'
        PROVE  Listed(e.id, e.side, e.price)'
    BY <1>3, <1>4 DEF Posted, Listed
  <2> QED
    BY <2>1, <2>2, <2>3 DEF Posted
<1>14. \A id : /\ Waits(id)' => Waits(id)
               /\ InHand(id)' => id = m.id /\ m.kind = "place"
               /\ InBook(id)' <=> InBook(id)
  BY <1>3, <1>7, <1>8 DEF Waits, InHand, InBook
<1>15. m.kind = "place" => Waits(m.id) /\ ~Waits(m.id)'
  <2> SUFFICES ASSUME m.kind = "place"
               PROVE  Waits(m.id) /\ ~Waits(m.id)'
    OBVIOUS
  <2>1. Waits(m.id)
    BY <1>6 DEF Waits
  <2>2. ASSUME NEW i \in DOMAIN queue', queue'[i].kind = "place", queue'[i].id = m.id
        PROVE  FALSE
    <3>1. i + 1 = 1
      BY <1>4, <1>6, <1>7, <2>2 DEF Once
    <3> QED
      BY <1>7, <3>1
  <2> QED
    BY <2>1, <2>2 DEF Waits
<1>16. Once'
  <2>1. \A i, j \in DOMAIN queue' :
           queue'[i].kind = "place" /\ queue'[j].kind = "place" /\ queue'[i].id = queue'[j].id => i = j
    BY <1>4, <1>7 DEF Once
  <2>2. ASSUME NEW id \in Ids
        PROVE  (Waits(id)' => ~InHand(id)' /\ ~InBook(id)') /\ (InHand(id)' => ~InBook(id)')
    BY <1>4, <1>14, <1>15 DEF Once
  <2>3. ASSUME NEW d \in Clients, client'[d].pc = "place_enqueue"
        PROVE  (~Waits(client[d].new) /\ ~InHand(client[d].new) /\ ~InBook(client[d].new))'
    <3>1. PICK n : n = client[d].new
      OBVIOUS
    <3>2. ~Waits(n) /\ ~InHand(n) /\ ~InBook(n)
      BY <1>3, <1>4, <2>3, <3>1 DEF Once
    <3>3. ~Waits(n)' /\ ~InHand(n)' /\ ~InBook(n)'
      BY <1>14, <1>15, <3>2
    <3> QED
      BY <1>3, <3>1, <3>3 DEF Waits, InHand, InBook
  <2>4. (\A e, f \in book' : e.id = f.id \/ e.seq = f.seq => e = f) /\ (\A e \in book' : e.seq <= seq')
    BY <1>3, <1>4 DEF Once
  <2> QED
    BY <2>1, <2>2, <2>3, <2>4 DEF Once
<1> QED
  BY <1>9, <1>10, <1>11, <1>12, <1>13, <1>16 DEF Ind

\* The makers within reach of a message: book entries, each once, that the
\* taker accepts.
LEMMA ReachIs ==
    ASSUME Ind, NEW msg, msg = worker.msg, worker.pc # "idle", NEW reach, reach = Tradable(msg)
    PROVE  /\ reach \in Seq(Maker)
           /\ \A i \in 1 .. Len(reach) : /\ Listed(reach[i].id, Opposite(msg.side), reach[i].price)
                                         /\ Crosses(msg.side, msg.price, reach[i].price)
                                         /\ reach[i].id # msg.id
           /\ \A i, j \in 1 .. Len(reach) : reach[i].id = reach[j].id => i = j
<1>0. PICK opp : opp = OppositeOrders(msg.side)
  OBVIOUS
<1>1. /\ opp \in Seq(Maker)
      /\ \A i \in 1 .. Len(opp) : \E e \in book :
             e.side = Opposite(msg.side) /\ e.id = opp[i].id /\ e.price = opp[i].price
      /\ \A i, j \in 1 .. Len(opp) : opp[i].id = opp[j].id => i = j
  BY <1>0, OppositeIs DEF Ind, Typed
<1>2. Len(opp) \in Nat /\ DOMAIN opp = 1 .. Len(opp)
  BY <1>1, LenProperties
<1> DEFINE good == {i \in DOMAIN opp : Crosses(msg.side, msg.price, opp[i].price)}
<1>3. reach = Leading(opp, good)
  BY <1>0 DEF Tradable, Reachable
<1>4. good \subseteq 1 .. Len(opp)
  BY <1>2
<1>5. PICK n \in 0 .. Len(opp) : reach = SubSeq(opp, 1, n) /\ 1 .. n \subseteq good
  <2> HIDE DEF good
  <2>1. \E n \in 0 .. Len(opp) : Leading(opp, good) = SubSeq(opp, 1, n) /\ 1 .. n \subseteq good /\ n + 1 \notin good
    BY ONLY <1>1, <1>4, LeadingIs
  <2> QED
    BY ONLY <1>3, <2>1
<1>6. reach \in Seq(Maker) /\ Len(reach) = n /\ \A i \in 1 .. n : reach[i] = opp[i]
  BY <1>1, <1>5, PrefixOf
<1>7. 1 .. n \subseteq 1 .. Len(opp)
  BY <1>2
<1>8. ASSUME NEW i \in 1 .. n
      PROVE  /\ Listed(reach[i].id, Opposite(msg.side), reach[i].price)
             /\ Crosses(msg.side, msg.price, reach[i].price)
             /\ reach[i].id # msg.id
  <2>1. PICK e \in book : e.side = Opposite(msg.side) /\ e.id = reach[i].id /\ e.price = reach[i].price
    BY <1>1, <1>6, <1>7
  <2>2. Listed(e.id, e.side, e.price)
    BY DEF Ind, Posted
  <2>3. Crosses(msg.side, msg.price, reach[i].price)
    BY <1>5, <1>6
  <2>4. InBook(e.id) /\ InHand(msg.id) /\ msg.id \in Ids
    BY WorkerParts DEF InBook, InHand
  <2>5. e.id # msg.id
    BY <2>4 DEF Ind, Once
  <2> QED
    BY <2>1, <2>2, <2>3, <2>5
<1>9. \A i, j \in 1 .. n : reach[i].id = reach[j].id => i = j
  BY <1>1, <1>6, <1>7
<1> QED
  BY <1>6, <1>8, <1>9

\* The trades of a match: with makers within reach, for no more than the taker wants.
Matched(msg, makers, taker) ==
    /\ makers \in Seq(Fill)
    /\ \A i \in 1 .. Len(makers) : MakerOk(msg, makers[i]) /\ makers[i].id # msg.id
    /\ \A i, j \in 1 .. Len(makers) : makers[i].id = makers[j].id => i = j
    /\ taker \in Fill /\ taker.id = msg.id
    /\ taker.qty = SumFunctionOnSet([i \in 1 .. Len(makers) |-> makers[i].qty], 1 .. Len(makers))
    /\ taker.quote = SumFunctionOnSet([i \in 1 .. Len(makers) |-> makers[i].quote], 1 .. Len(makers))
    /\ msg.qty - taker.qty \in Nat

\* The fills of a match are such.
LEMMA MatchIs ==
    ASSUME Ind, NEW msg, msg = worker.msg, worker.pc # "idle", NEW reach, reach = Tradable(msg),
           NEW makers, makers = MakerFills(reach, msg.qty), NEW taker, taker = TakerFill(msg.id, makers)
    PROVE  Matched(msg, makers, taker)
<1>1. msg.qty \in Nat /\ msg.id \in Ids
  BY WorkerParts DEF MessageRow
<1>2. /\ reach \in Seq(Maker)
      /\ \A i \in 1 .. Len(reach) : /\ Listed(reach[i].id, Opposite(msg.side), reach[i].price)
                                    /\ Crosses(msg.side, msg.price, reach[i].price)
                                    /\ reach[i].id # msg.id
      /\ \A i, j \in 1 .. Len(reach) : reach[i].id = reach[j].id => i = j
  BY ReachIs
<1>3. Len(reach) \in Nat /\ DOMAIN reach = 1 .. Len(reach)
  BY <1>2, LenProperties
<1> DEFINE give == Fills(reach, msg.qty)
           fs == [i \in DOMAIN reach |-> [id |-> reach[i].id, price |-> reach[i].price,
                                          qty |-> give[i], quote |-> reach[i].price * give[i]]]
           good == {i \in DOMAIN reach : give[i] > 0}
<1>4. makers = Leading(fs, good)
  BY DEF MakerFills
<1>5. \A i \in 1 .. Len(reach) : give[i] \in Nat
  BY <1>1, <1>2, FillIs
<1>6. \A i \in 1 .. Len(reach) : reach[i] \in Maker /\ reach[i].id \in Ids /\ reach[i].price \in Nat
  <2>1. \A i \in 1 .. Len(reach) : reach[i] \in Maker
    BY <1>2
  <2> QED
    BY <2>1 DEF Maker
<1>7. ASSUME NEW i \in 1 .. Len(reach)
      PROVE  /\ fs[i] \in Fill /\ fs[i].id = reach[i].id /\ fs[i].price = reach[i].price
             /\ fs[i].qty = give[i] /\ fs[i].quote = fs[i].price * fs[i].qty
  <2>1. give[i] \in Nat /\ reach[i].price \in Nat /\ reach[i].id \in Ids
    BY <1>5, <1>6
  <2> HIDE DEF give
  <2>2. reach[i].price * give[i] \in Nat
    BY <2>1
  <2>3. fs[i] = [id |-> reach[i].id, price |-> reach[i].price, qty |-> give[i], quote |-> reach[i].price * give[i]]
    BY <1>3
  <2>4. PICK f, x, p, q, o : f = fs[i] /\ x = reach[i].id /\ p = reach[i].price /\ q = give[i] /\ o = reach[i].price * give[i]
    OBVIOUS
  <2> HIDE DEF fs
  <2>5. f = [id |-> x, price |-> p, qty |-> q, quote |-> o]
    BY ONLY <2>3, <2>4
  <2>6. x \in Ids /\ p \in Nat /\ q \in Nat /\ o \in Nat /\ o = p * q
    BY ONLY <2>1, <2>2, <2>4
  <2>7. f \in Fill /\ f.id = x /\ f.price = p /\ f.qty = q /\ f.quote = o
    BY ONLY <2>5, <2>6 DEF Fill
  <2>8. f.quote = f.price * f.qty
    BY ONLY <2>6, <2>7
  <2> QED
    BY ONLY <2>4, <2>7, <2>8
<1>8. fs \in Seq(Fill) /\ Len(fs) = Len(reach)
  <2>1. fs \in [1 .. Len(reach) -> Fill]
    <3>1. DOMAIN fs = 1 .. Len(reach) /\ fs = [i \in DOMAIN fs |-> fs[i]]
      BY <1>3
    <3> HIDE DEF fs
    <3> QED
      BY <1>7, <3>1
  <2> HIDE DEF fs
  <2> QED
    BY <1>3, <2>1
<1>9. good \subseteq 1 .. Len(fs)
  BY <1>3, <1>8
<1>10. PICK n \in 0 .. Len(fs) : makers = SubSeq(fs, 1, n) /\ 1 .. n \subseteq good
  <2> HIDE DEF fs, good
  <2>1. PICK s, g : s = fs /\ g = good
    OBVIOUS
  <2>2. s \in Seq(Fill) /\ g \subseteq 1 .. Len(s)
    BY ONLY <1>8, <1>9, <2>1
  <2>3. \E n \in 0 .. Len(s) : Leading(s, g) = SubSeq(s, 1, n) /\ 1 .. n \subseteq g
    BY ONLY <2>2, LeadingIs
  <2> QED
    BY ONLY <1>4, <2>1, <2>3
<1>11. makers \in Seq(Fill) /\ Len(makers) = n /\ \A i \in 1 .. n : makers[i] = fs[i]
  <2> HIDE DEF fs
  <2> QED
    BY <1>8, <1>10, PrefixOf
<1>12. 1 .. n \subseteq 1 .. Len(reach) /\ n \in Nat /\ n \in 0 .. Len(reach)
  BY <1>3, <1>8
<1>13. ASSUME NEW i \in 1 .. n
       PROVE  /\ makers[i].id = reach[i].id /\ makers[i].price = reach[i].price /\ makers[i].qty = give[i]
              /\ makers[i].quote = makers[i].price * makers[i].qty /\ makers[i].qty > 0
              /\ makers[i].qty \in Nat /\ makers[i].quote \in Nat
  <2>1. i \in 1 .. Len(reach) /\ i \in good /\ makers[i] = fs[i] /\ fs[i] \in Fill
    BY <1>7, <1>10, <1>11, <1>12
  <2>2. give[i] > 0
    BY <2>1
  <2>3. makers[i].qty \in Nat /\ makers[i].quote \in Nat
    BY <2>1 DEF Fill
  <2> HIDE DEF fs, good, give
  <2> QED
    BY <1>7, <2>1, <2>2, <2>3
<1>14. ASSUME NEW i \in 1 .. n
       PROVE  MakerOk(msg, makers[i]) /\ makers[i].id # msg.id
  <2> HIDE DEF fs, good, give
  <2> QED
    BY <1>2, <1>12, <1>13 DEF MakerOk
<1>15. \A i, j \in 1 .. n : makers[i].id = makers[j].id => i = j
  <2> HIDE DEF fs, good, give
  <2> QED
    BY <1>2, <1>12, <1>13
<1> DEFINE qs == [i \in 1 .. n |-> makers[i].qty]
           os == [i \in 1 .. n |-> makers[i].quote]
<1>16. DOMAIN makers = 1 .. n /\ IsFiniteSet(1 .. n)
  BY <1>11, <1>12, FS_Interval
<1>17. /\ taker.id = msg.id /\ taker.qty = SumFunctionOnSet(qs, 1 .. n) /\ taker.quote = SumFunctionOnSet(os, 1 .. n)
       /\ taker = [id |-> msg.id, price |-> 0, qty |-> SumFunctionOnSet(qs, 1 .. n),
                   quote |-> SumFunctionOnSet(os, 1 .. n)]
  <2>1. DOMAIN qs = 1 .. n /\ DOMAIN os = 1 .. n
    OBVIOUS
  <2>2. taker = [id |-> msg.id, price |-> 0, qty |-> SumFunction(qs), quote |-> SumFunction(os)]
    BY <1>16 DEF TakerFill, NoPrice
  <2> HIDE DEF qs, os
  <2> QED
    BY <2>1, <2>2 DEF SumFunction
<1>18. SumFunctionOnSet(qs, 1 .. n) \in Nat /\ SumFunctionOnSet(os, 1 .. n) \in Nat
  <2>1. \A i \in 1 .. n : qs[i] \in Nat /\ os[i] \in Nat
    BY <1>13
  <2> HIDE DEF qs, os
  <2> QED
    BY <1>16, <2>1, SumNat
<1>19. taker \in Fill
  <2> HIDE DEF qs, os
  <2> QED
    BY <1>1, <1>17, <1>18 DEF Fill
<1>20. msg.qty - taker.qty \in Nat
  <2>1. \A i \in 1 .. n : qs[i] = give[i]
    BY <1>13
  <2>2. SumFunctionOnSet(qs, 1 .. n) = SumFunctionOnSet(give, 1 .. n)
    <3> HIDE DEF qs, give
    <3> QED
      BY <1>16, <2>1, SumSame
  <2> DEFINE v == SumFunctionOnSet(Volumes(reach), 1 .. n)
  <2>3. SumFunctionOnSet(give, 1 .. n) = IF msg.qty <= v THEN msg.qty ELSE v
    BY <1>1, <1>2, <1>12, FillsSum
  <2>4. v \in Nat
    BY <1>2, <1>12, VolumeIs
  <2> HIDE DEF qs, give, v
  <2> QED
    BY <1>1, <1>17, <2>2, <2>3, <2>4
<1>21. \A i \in 1 .. Len(makers) : MakerOk(msg, makers[i]) /\ makers[i].id # msg.id
  BY ONLY <1>11, <1>14
<1>22. \A i, j \in 1 .. Len(makers) : makers[i].id = makers[j].id => i = j
  BY ONLY <1>11, <1>15
<1>23. /\ taker.qty = SumFunctionOnSet([i \in 1 .. Len(makers) |-> makers[i].qty], 1 .. Len(makers))
       /\ taker.quote = SumFunctionOnSet([i \in 1 .. Len(makers) |-> makers[i].quote], 1 .. Len(makers))
  <2>1. Len(makers) = n
    BY ONLY <1>11
  <2>2. taker.qty = SumFunctionOnSet(qs, 1 .. n) /\ taker.quote = SumFunctionOnSet(os, 1 .. n)
    BY ONLY <1>17
  <2> QED
    BY ONLY <2>1, <2>2
<1>24. makers \in Seq(Fill) /\ taker.id = msg.id
  BY ONLY <1>11, <1>17
<1> HIDE DEF fs, good, give, qs, os
<1> QED
  BY ONLY <1>19, <1>20, <1>21, <1>22, <1>23, <1>24 DEF Matched

\* What the worker may do after the trades.
LEMMA AfterIs ==
    ASSUME NEW msg, NEW left
    PROVE  /\ AfterTrades(msg, left) \in {"rest_hash", "refund", "idle"}
           /\ AfterTrades(msg, left) = "refund" => msg.side = "buy"
BY DEF AfterTrades, RefundedOlder, Refunded

\* The worker turns to what is left of the taker.
LEMMA TurnsTo ==
    ASSUME Ind, worker.pc # "idle", NEW left \in Nat, NEW q, q = AfterTrades(worker.msg, left),
           NEW w \in WorkerState, w.msg = worker.msg, w.fills = <<>>, w.k = 0, w.acc = Untouched,
           WorkerGoto(q, w), \A r \in Rows : bal'[r].locked \in Nat
    PROVE  /\ worker' \in WorkerState /\ (worker'.pc # "idle" => worker'.msg = worker.msg)
           /\ Batch' /\ Account' /\ Summed'
<1>1. q \in {"rest_hash", "refund", "idle"} /\ (q = "refund" => worker.msg.side = "buy")
  BY AfterIs
<1>2. CASE q = "idle"
  <2>1. worker' = IdleWorker
    BY <1>2 DEF WorkerGoto
  <2> QED
    BY <2>1, IdleIs, IdleNow
<1>3. CASE q # "idle"
  <2>1. worker' = [w EXCEPT !.pc = q]
    BY <1>3 DEF WorkerGoto
  <2>2. /\ worker' \in WorkerState /\ worker'.pc = q /\ worker'.msg = worker.msg /\ worker'.fills = <<>>
        /\ worker'.k = 0 /\ worker'.acc = Untouched
    BY <1>1, <2>1 DEF WorkerState
  <2>3. Batch' /\ Summed'
    BY <1>1, <1>3, <2>2 DEF Batch, Summed, BatchPCs, SettlePCs
  <2>4. Account'
    BY <1>1, <2>2, AccountNone
  <2> QED
    BY <2>2, <2>3, <2>4
<1> QED
  BY <1>2, <1>3

\* The call of the engine makes a batch, or none.
LEMMA WorkerMatchKeeps ==
    ASSUME Ind, WorkerMatch, edition' = edition
    PROVE  Ind'
<1>1. worker.pc = "match" /\ worker.pc # "idle"
  BY DEF WorkerMatch
<1>2. UNCHANGED <<pg, balLock, ordLock, client, nextId, redis, dropped>>
  BY DEF WorkerMatch
<1>3. /\ bal' = bal /\ orders' = orders /\ trades' = trades /\ balLock' = balLock /\ ordLock' = ordLock
      /\ client' = client /\ nextId' = nextId /\ dropped' = dropped
      /\ queue' = queue /\ book' = book /\ hash' = hash /\ seq' = seq
  BY <1>2 DEF pg, redis
<1>4. PICK msg, reach, makers, taker :
          /\ msg = worker.msg /\ reach = Tradable(msg) /\ makers = MakerFills(reach, msg.qty)
          /\ taker = TakerFill(msg.id, makers)
          /\ \/ WorkerGoto("idle", worker)
             \/ /\ makers = <<>>
                /\ WorkerGoto(AfterTrades(msg, msg.qty - taker.qty), [worker EXCEPT !.left = msg.qty - taker.qty])
             \/ /\ makers # <<>>
                /\ WorkerGoto("users", [worker EXCEPT !.left = msg.qty - taker.qty, !.fills = Append(makers, taker)])
  BY DEF WorkerMatch
<1>5. /\ makers \in Seq(Fill)
      /\ \A i \in 1 .. Len(makers) : MakerOk(msg, makers[i]) /\ makers[i].id # msg.id
      /\ \A i, j \in 1 .. Len(makers) : makers[i].id = makers[j].id => i = j
      /\ taker \in Fill /\ taker.id = msg.id
      /\ taker.qty = SumFunctionOnSet([i \in 1 .. Len(makers) |-> makers[i].qty], 1 .. Len(makers))
      /\ taker.quote = SumFunctionOnSet([i \in 1 .. Len(makers) |-> makers[i].quote], 1 .. Len(makers))
      /\ msg.qty - taker.qty \in Nat
  <2>1. Matched(msg, makers, taker)
    BY ONLY Ind, <1>1, <1>4, MatchIs
  <2> QED
    BY ONLY <2>1 DEF Matched
<1>6. PICK left \in Nat : left = msg.qty - taker.qty
  BY <1>5
<1>7. worker \in WorkerState /\ worker.fills = <<>> /\ worker.k = 0 /\ worker.acc = Untouched
  BY <1>1, WorkerParts DEF Ind, Batch, Account, BatchPCs, SettlePCs
<1>8. \A r \in Rows : bal'[r].locked \in Nat
  BY <1>3 DEF Ind, Typed, TypedPg
<1>9. /\ worker' \in WorkerState /\ (worker'.pc # "idle" => worker'.msg = worker.msg)
      /\ Batch' /\ Account' /\ Summed'
  <2>1. CASE WorkerGoto("idle", worker)
    <3>1. worker' = IdleWorker
      BY <2>1 DEF WorkerGoto
    <3> QED
      BY <1>8, <3>1, IdleIs, IdleNow
  <2>2. CASE WorkerGoto(AfterTrades(msg, left), [worker EXCEPT !.left = left])
    <3> DEFINE w == [worker EXCEPT !.left = left]
    <3>1. w \in WorkerState /\ w.msg = worker.msg /\ w.fills = <<>> /\ w.k = 0 /\ w.acc = Untouched
      BY <1>7 DEF WorkerState
    <3> HIDE DEF w
    <3>2. WorkerGoto(AfterTrades(worker.msg, left), w)
      BY <1>4, <2>2 DEF w
    <3> QED
      BY <1>1, <1>8, <3>1, <3>2, TurnsTo
  <2>3. CASE /\ makers # <<>>
             /\ WorkerGoto("users", [worker EXCEPT !.left = left, !.fills = Append(makers, taker)])
    <3>1. PICK fs : fs = Append(makers, taker)
      OBVIOUS
    <3>2. worker' = [[worker EXCEPT !.left = left, !.fills = fs] EXCEPT !.pc = "users"]
      BY <2>3, <3>1 DEF WorkerGoto
    <3>3. PICK n : n = Len(makers)
      OBVIOUS
    <3>4. /\ fs \in Seq(Fill) /\ Len(fs) = n + 1 /\ n \in Nat \ {0}
          /\ \A i \in 1 .. n : fs[i] = makers[i]
          /\ fs[n + 1] = taker
      BY <1>5, <2>3, <3>1, <3>3, AppendProperties, EmptySeq
    <3>5. /\ worker' \in WorkerState /\ worker'.pc = "users" /\ worker'.msg = msg /\ worker'.fills = fs
          /\ worker'.k = 0 /\ worker'.acc = Untouched
      <4>1. "users" \in BatchPCs
        BY DEF BatchPCs
      <4> QED
        BY <1>4, <1>7, <3>2, <3>4, <4>1 DEF WorkerState
    <3>6. ASSUME NEW i \in 1 .. n
          PROVE  MakerOk(msg, fs[i])'
      <4>1. MakerOk(msg, fs[i])
        BY <1>5, <3>3, <3>4
      <4> QED
        BY <1>3, <4>1 DEF MakerOk, Listed
    <3>7. \A i, j \in 1 .. n + 1 : fs[i].id = fs[j].id => i = j
      <4>1. \A i \in 1 .. n : fs[i].id # msg.id
        BY <1>5, <3>3, <3>4
      <4>2. fs[n + 1].id = msg.id
        BY <1>5, <3>4
      <4>3. \A i, j \in 1 .. n : fs[i].id = fs[j].id => i = j
        BY <1>5, <3>3, <3>4
      <4>4. \A i \in 1 .. n + 1 : i \in 1 .. n \/ i = n + 1
        BY <3>4
      <4> QED
        BY <4>1, <4>2, <4>3, <4>4
    <3>8. /\ [i \in 1 .. n |-> fs[i].qty] = [i \in 1 .. n |-> makers[i].qty]
          /\ [i \in 1 .. n |-> fs[i].quote] = [i \in 1 .. n |-> makers[i].quote]
      BY <3>4
    <3>9. /\ taker.qty = SumFunctionOnSet([i \in 1 .. n |-> fs[i].qty], 1 .. n)
          /\ taker.quote = SumFunctionOnSet([i \in 1 .. n |-> fs[i].quote], 1 .. n)
      BY <1>5, <3>3, <3>8
    <3>10. BatchOk(worker)'
      <4>1. Len(fs) > 1 /\ Len(fs) - 1 = n /\ Len(fs) = n + 1
        BY <3>4
      <4>2. ASSUME NEW i \in 1 .. Len(worker'.fills) - 1
            PROVE  MakerOk(worker.msg, worker.fills[i])'
        <5>1. MakerOk(msg, fs[i])'
          BY <3>5, <3>6, <4>1
        <5> QED
          BY <3>5, <5>1 DEF MakerOk, Listed
      <4>3. /\ Len(worker'.fills) > 1 /\ taker.id = msg.id /\ fs[Len(fs)] = taker
            /\ \A i, j \in 1 .. Len(fs) : fs[i].id = fs[j].id => i = j
        BY <1>5, <3>4, <3>5, <3>7, <4>1
      <4>4. /\ taker.qty = SumFunctionOnSet([i \in 1 .. Len(fs) - 1 |-> fs[i].qty], 1 .. Len(fs) - 1)
            /\ taker.quote = SumFunctionOnSet([i \in 1 .. Len(fs) - 1 |-> fs[i].quote], 1 .. Len(fs) - 1)
        BY ONLY <3>9, <4>1
      <4>5. worker'.fills = fs /\ worker'.msg = msg
        BY ONLY <3>5
      <4> QED
        BY ONLY <4>2, <4>3, <4>4, <4>5 DEF BatchOk
    <3>11. Batch' /\ Summed'
      BY <3>5, <3>10 DEF Batch, Summed, BatchPCs, SettlePCs
    <3>12. Account'
      BY <1>8, <3>5, AccountNone
    <3> QED
      BY <1>4, <3>5, <3>11, <3>12
  <2> QED
    BY <1>4, <1>6, <2>1, <2>2, <2>3
<1>10. Typed'
  <2>1. TypedPg' /\ TypedRedis' /\ TypedActors'
    BY <1>3, <1>9 DEF Ind, Typed, TypedPg, TypedRedis, TypedActors
  <2> QED
    BY <2>1 DEF Typed
<1> QED
  BY <1>1, <1>3, <1>9, <1>10, WorkerStays

\* A party's two amounts are numbers.
LEMMA PartyAmounts ==
    ASSUME Ind, worker.pc \in SettlePCs, NEW i \in 1 .. Len(worker.fills)
    PROVE  LET f == worker.fills[i]
               o == orders[f.id]
           IN  /\ f.id \in Ids /\ o \in Order /\ o.status # "none"
               /\ Cost(o, f.qty, f.quote) \in Nat /\ Gain(o, f.qty, f.quote) \in Nat
               /\ \A r : Effect(f, o, r) \in Int
<1>1. /\ worker.fills[i].id \in Ids /\ worker.fills[i].qty \in Nat /\ worker.fills[i].quote \in Nat
  BY WorkerParts
<1>2. orders[worker.fills[i].id] \in Order /\ orders[worker.fills[i].id].status # "none"
  BY <1>1 DEF Ind, Typed, TypedPg, Batch
<1> QED
  BY <1>1, <1>2 DEF Cost, Gain, Effect

\* A party is settled: what it pays is locked, in a row the worker holds.
LEMMA WorkerSettleKeeps ==
    ASSUME Ind, WorkerSettle, edition' = edition
    PROVE  Ind'
<1>1. worker.pc = "settle" /\ worker.pc # "idle" /\ worker.pc \in SettlePCs
  BY DEF WorkerSettle, SettlePCs
<1>2. CASE WorkerFails
  BY <1>1, <1>2, WorkerFailsKeeps
<1>3. CASE ~WorkerFails
  <2>0. PICK p, o, cost, gain, rest, n, k :
            /\ p = Party /\ o = PartyOrder /\ cost = Cost(o, p.qty, p.quote) /\ gain = Gain(o, p.qty, p.quote)
            /\ rest = o.qty - (o.filled + p.qty) /\ n = Len(worker.fills) /\ k = worker.k
    OBVIOUS
  <2> DEFINE acc == [r \in Rows |->
                        [locked |-> worker.acc[r].locked - (IF r = PayRow(o) THEN cost ELSE 0),
                         available |-> worker.acc[r].available + (IF r = GetRow(o) THEN gain ELSE 0)]]
             pc == IF IsMaker THEN "pay" ELSE "commit"
             j == IF IsMaker THEN k + 1 ELSE k
  <2>1. /\ PayRow(o) \in Rows => bal[PayRow(o)].locked + worker.acc[PayRow(o)].locked >= cost
        /\ worker' = [worker EXCEPT !.acc = acc, !.pc = pc, !.k = j]
        /\ \/ update_redis_maker(p.id, rest) \/ update_redis_maker_older(p.id, rest)
           \/ UNCHANGED <<book, hash>>
    BY <1>3, <2>0 DEF WorkerSettle
  <2>2. UNCHANGED <<pg, balLock, ordLock, client, nextId, queue, seq, dropped>>
    BY <1>3 DEF WorkerSettle
  <2>3. /\ bal' = bal /\ orders' = orders /\ trades' = trades /\ balLock' = balLock /\ ordLock' = ordLock
        /\ client' = client /\ nextId' = nextId /\ dropped' = dropped /\ queue' = queue /\ seq' = seq
    BY <2>2 DEF pg
  <2>4. /\ BatchOk(worker) /\ k \in 1 .. n /\ n \in Nat
        /\ \A i \in 1 .. n : orders[worker.fills[i].id].status # "none"
        /\ worker \in WorkerState /\ worker.acc \in [Rows -> Amounts] /\ p = worker.fills[k] /\ o = orders[p.id]
    <3>1. BatchOk(worker)
      BY <1>1 DEF Ind, Batch, BatchPCs
    <3>2. k \in 1 .. n /\ \A i \in 1 .. n : orders[worker.fills[i].id].status # "none"
      BY <1>1, <2>0 DEF Ind, Batch
    <3>3. p = worker.fills[k] /\ o = orders[p.id]
      BY <2>0 DEF Party, PartyOrder
    <3>4. worker \in WorkerState /\ worker.acc \in [Rows -> Amounts] /\ n \in Nat
      BY <2>0, WorkerParts
    <3> QED
      BY <3>1, <3>2, <3>3, <3>4
  <2>5. p.id \in Ids /\ cost \in Nat /\ gain \in Nat
    BY <1>1, <2>0, <2>4, PartyAmounts
  <2>6. \A r \in Rows : worker.acc[r].locked \in Int /\ worker.acc[r].available \in Int /\ bal[r].locked \in Nat
    BY <2>4 DEF Amounts, Ind, Typed, TypedPg
  <2>7. /\ acc \in [Rows -> Amounts]
        /\ \A r \in Rows : /\ acc[r].locked = worker.acc[r].locked - (IF r = PayRow(o) THEN cost ELSE 0)
                           /\ acc[r].available = worker.acc[r].available + (IF r = GetRow(o) THEN gain ELSE 0)
    BY <2>5, <2>6 DEF Amounts
  <2>8. ASSUME NEW r \in Rows, r # PayRow(o), r # GetRow(o)
        PROVE  acc[r] = worker.acc[r]
    <3>1. worker.acc[r] \in Amounts /\ acc[r] \in Amounts
      BY <2>4, <2>7
    <3>2. acc[r].locked = worker.acc[r].locked /\ acc[r].available = worker.acc[r].available
      BY <2>6, <2>7, <2>8
    <3> HIDE DEF acc
    <3> QED
      BY <3>1, <3>2 DEF Amounts
  <2> HIDE DEF acc
  <2>9. pc \in {"pay", "commit"} /\ j \in 1 .. n /\ (pc = "commit" => j = n /\ k = n) /\ (pc = "pay" => j = k + 1)
    <3>1. IsMaker <=> k < n
      BY ONLY <2>0 DEF IsMaker
    <3>2. k \in Nat /\ n \in Nat /\ 1 <= k /\ k <= n
      BY ONLY <2>4
    <3>3. CASE IsMaker
      BY ONLY <3>1, <3>2, <3>3
    <3>4. CASE ~IsMaker
      BY ONLY <3>1, <3>2, <3>4
    <3> QED
      BY ONLY <3>3, <3>4
  <2> HIDE DEF pc, j
  <2>10. /\ worker' \in WorkerState /\ worker'.pc = pc /\ worker'.k = j /\ worker'.fills = worker.fills
         /\ worker'.msg = worker.msg /\ worker'.acc = acc
    <3>1. pc \in BatchPCs /\ j \in Nat
      BY <2>4, <2>9 DEF BatchPCs, SettlePCs
    <3> QED
      BY <2>1, <2>4, <2>7, <3>1 DEF WorkerState
  <2>11. book' \subseteq book /\ hash' \in [Ids -> Nat]
    <3>0. hash \in [Ids -> Nat]
      BY DEF Ind, Typed, TypedRedis
    <3>1. CASE UNCHANGED <<book, hash>>
      BY <3>0, <3>1
    <3>2. CASE update_redis_maker(p.id, rest) \/ update_redis_maker_older(p.id, rest)
      <4>1. rest \in Int
        <5>1. o \in Order /\ p.qty \in Nat
          BY <1>1, <2>0, <2>4, PartyAmounts, WorkerParts
        <5>2. o.qty \in Nat /\ o.filled \in Nat
          BY <5>1 DEF Order
        <5> QED
          BY <2>0, <5>1, <5>2
      <4> QED
        BY <2>5, <3>0, <3>2, <4>1 DEF update_redis_maker, update_redis_maker_older, RemoveFromBook
    <3> QED
      BY <2>1, <3>1, <3>2
  <2>12. Typed'
    <3>1. TypedPg' /\ TypedActors'
      BY <2>3, <2>10 DEF Ind, Typed, TypedPg, TypedActors
    <3>2. book \subseteq BookRow /\ IsFiniteSet(book)
      BY DEF Ind, Typed, TypedRedis
    <3>3. book' \subseteq BookRow /\ IsFiniteSet(book')
      BY <2>11, <3>2, FS_Subset
    <3>4. TypedRedis'
      BY <2>3, <2>11, <3>3 DEF Ind, Typed, TypedRedis
    <3> QED
      BY <3>1, <3>4 DEF Typed
  <2>13. Steady
    BY <2>3, <2>12, WorkerPlain DEF Typed
  <2>14. Batch'
    <3>1. BatchOk(worker)'
      BY <2>4, <2>10, <2>13, BatchOkLater
    <3> QED
      BY <2>0, <2>3, <2>4, <2>9, <2>10, <3>1 DEF Batch, BatchPCs, SettlePCs
  <2>15. Account'
    <3>1. Account
      BY DEF Ind
    <3>2. /\ PayRow(o) \in Rows => balLock[PayRow(o)] = Worker
          /\ GetRow(o) \in Rows => balLock[GetRow(o)] = Worker
      BY <1>1, <2>0, <3>1 DEF Account
    <3>3. ASSUME NEW r \in Rows
          PROVE  /\ bal[r].locked + acc[r].locked >= 0 /\ acc[r].available >= 0
                 /\ acc[r] # [locked |-> 0, available |-> 0] => balLock[r] = Worker
      <4>1. bal[r].locked + worker.acc[r].locked >= 0 /\ worker.acc[r].available >= 0
        BY <3>1 DEF Account
      <4>2. bal[r].locked + acc[r].locked >= 0
        BY <2>1, <2>5, <2>6, <2>7, <4>1
      <4>3. acc[r].available >= 0
        BY <2>5, <2>6, <2>7, <4>1
      <4>4. acc[r] # [locked |-> 0, available |-> 0] => balLock[r] = Worker
        BY <2>8, <3>1, <3>2 DEF Account
      <4> QED
        BY <4>2, <4>3, <4>4
    <3>4. worker'.pc \notin {"get", "settle"} /\ worker'.pc \in SettlePCs
      BY <2>9, <2>10 DEF SettlePCs
    <3> QED
      BY <2>3, <2>10, <3>3, <3>4 DEF Account
  <2>16. Summed'
    <3> SUFFICES ASSUME NEW r \in Rows
                 PROVE  (worker.acc[r].locked + worker.acc[r].available = SumFunctionOnSet(Effects(r), 1 .. Settled))'
      BY DEF Summed
    <3>1. worker.acc[r].locked + worker.acc[r].available = SumFunctionOnSet(Effects(r), 1 .. k - 1)
      BY <1>1, <2>0 DEF Ind, Summed, Settled
    <3>2. Settled' = k
      <4>1. worker'.k = j /\ worker'.pc = pc
        BY ONLY <2>10
      <4>2. k \in Nat /\ n \in Nat
        BY ONLY <2>4
      <4>3. CASE pc = "pay"
        <5>1. worker'.pc = "pay" /\ worker'.k = k + 1
          BY ONLY <2>9, <4>1, <4>3
        <5>2. Settled' = worker'.k - 1
          BY ONLY <5>1 DEF Settled
        <5>3. (k + 1) - 1 = k
          BY ONLY <4>2
        <5> QED
          BY ONLY <5>1, <5>2, <5>3
      <4>4. CASE pc = "commit"
        <5>1. worker'.pc = "commit" /\ worker'.fills = worker.fills /\ n = Len(worker.fills) /\ k = n
          BY ONLY <2>0, <2>9, <2>10, <4>1, <4>4
        <5> QED
          BY ONLY <5>1 DEF Settled
      <4> QED
        BY ONLY <2>9, <4>3, <4>4
    <3>3. Effects(r)' = Effects(r)
      BY <2>3, <2>10 DEF Effects, Effect, PayRow, GetRow, Cost, Gain
    <3> DEFINE e == Effects(r)
    <3>4. \A i \in 1 .. n : e[i] \in Int
      BY <1>1, <2>0, PartyAmounts DEF Effects
    <3>5. e[k] = (IF r = GetRow(o) THEN gain ELSE 0) - (IF r = PayRow(o) THEN cost ELSE 0)
      BY <2>0, <2>4 DEF Effects, Effect
    <3> HIDE DEF e
    <3>6. SumFunctionOnSet(e, 1 .. k) = SumFunctionOnSet(e, 1 .. k - 1) + e[k]
      <4>1. k - 1 \in Nat /\ (k - 1) + 1 = k
        BY <2>4
      <4>2. \A i \in 1 .. (k - 1) + 1 : e[i] \in Int
        BY <2>4, <3>4
      <4> QED
        BY <4>1, <4>2, SumUpTo
    <3>7. acc[r].locked + acc[r].available = SumFunctionOnSet(e, 1 .. k)
      <4>1. SumFunctionOnSet(e, 1 .. k - 1) = worker.acc[r].locked + worker.acc[r].available
        BY <3>1 DEF e
      <4> DEFINE x == IF r = PayRow(o) THEN cost ELSE 0
                 y == IF r = GetRow(o) THEN gain ELSE 0
      <4>2. x \in Int /\ y \in Int
        BY <2>5
      <4>3. acc[r].locked = worker.acc[r].locked - x /\ acc[r].available = worker.acc[r].available + y
        BY <2>7
      <4>4. e[k] = y - x
        BY <3>5
      <4>5. worker.acc[r].locked \in Int /\ worker.acc[r].available \in Int
        BY <2>6
      <4> HIDE DEF x, y
      <4> QED
        BY <3>6, <4>1, <4>2, <4>3, <4>4, <4>5
    <3> QED
      BY <2>10, <3>2, <3>3, <3>7 DEF e
  <2> QED
    BY <1>1, <2>3, <2>10, <2>11, <2>12, <2>14, <2>15, <2>16, WorkerStays
<1> QED
  BY <1>2, <1>3

-----------------------------------------------------------------------------
(* The commit of a batch.                                                  *)

\* The sum of two sequences of numbers, one after the other.
LEMMA SumConcat ==
    ASSUME NEW n \in Nat, NEW m \in Nat, NEW f, NEW g, NEW h,
           \A i \in 1 .. n : f[i] \in Int /\ h[i] = f[i],
           \A i \in 1 .. m : g[i] \in Int /\ h[n + i] = g[i]
    PROVE  SumFunctionOnSet(h, 1 .. n + m) = SumFunctionOnSet(f, 1 .. n) + SumFunctionOnSet(g, 1 .. m)
<1> DEFINE H(k) == SumFunctionOnSet(h, 1 .. n + k)
           G(k) == SumFunctionOnSet(g, 1 .. k)
           F == SumFunctionOnSet(f, 1 .. n)
           Bad == {k \in 0 .. m : ~(H(k) = F + G(k))}
<1>0. IsFiniteSet(1 .. n)
  BY FS_Interval
<1>1. F \in Int
  <2>1. \A i \in 1 .. n : f[i] \in Int
    OBVIOUS
  <2> QED
    BY <1>0, <2>1, SumInt
<1>2. ASSUME NEW k \in 0 .. m
      PROVE  G(k) \in Int
  <2>1. IsFiniteSet(1 .. k) /\ \A i \in 1 .. k : g[i] \in Int
    BY FS_Interval
  <2> QED
    BY <2>1, SumInt
<1>3. H(0) = F + G(0)
  <2>1. n + 0 = n /\ 1 .. 0 = {}
    OBVIOUS
  <2>2. G(0) = 0
    BY <2>1, SumEmpty
  <2>3. H(0) = F
    <3>1. SumFunctionOnSet(f, 1 .. n) = SumFunctionOnSet(h, 1 .. n)
      <4>1. \A i \in 1 .. n : f[i] = h[i]
        OBVIOUS
      <4> QED
        BY <1>0, <4>1, SumSame
    <3> QED
      BY <2>1, <3>1
  <2> HIDE DEF H, F, G
  <2> QED
    BY <1>1, <2>2, <2>3
<1>4. ASSUME NEW k \in 0 .. m - 1, H(k) = F + G(k)
      PROVE  H(k + 1) = F + G(k + 1)
  <2>1. k \in Nat /\ n + k \in Nat /\ (n + k) + 1 = n + (k + 1) /\ k + 1 \in 1 .. m
    OBVIOUS
  <2>2. G(k + 1) = G(k) + g[k + 1]
    <3>1. \A i \in 1 .. k + 1 : g[i] \in Int
      BY <2>1
    <3> QED
      BY <2>1, <3>1, SumUpTo
  <2>3. H(k + 1) = H(k) + h[n + (k + 1)]
    <3>1. ASSUME NEW i \in 1 .. (n + k) + 1
          PROVE  h[i] \in Int
      <4>1. CASE i \in 1 .. n
        BY <4>1
      <4>2. CASE i \notin 1 .. n
        <5>1. PICK q \in 1 .. m : i = n + q
          <6>1. i - n \in 1 .. m /\ i = n + (i - n)
            BY <4>2
          <6> QED
            BY <6>1
        <5> QED
          BY <5>1
      <4> QED
        BY <4>1, <4>2
    <3>2. SumFunctionOnSet(h, 1 .. (n + k) + 1) = SumFunctionOnSet(h, 1 .. n + k) + h[(n + k) + 1]
      BY <2>1, <3>1, SumUpTo
    <3> QED
      BY <2>1, <3>2
  <2>4. h[n + (k + 1)] = g[k + 1] /\ g[k + 1] \in Int /\ G(k) \in Int
    BY <1>2, <2>1
  <2> HIDE DEF H, F, G
  <2> QED
    BY <1>1, <1>4, <2>2, <2>3, <2>4
<1> HIDE DEF H, F, G
<1>5. Bad = {}
  <2> SUFFICES ASSUME Bad # {}
               PROVE  FALSE
    OBVIOUS
  <2>1. Bad \subseteq Nat
    OBVIOUS
  <2>2. PICK k \in Bad : \A j \in Bad : ~(j < k)
    BY <2>1, LeastNumber
  <2>3. k # 0
    BY <1>3
  <2>4. k - 1 \in 0 .. m - 1 /\ (k - 1) + 1 = k /\ k - 1 < k /\ k - 1 \in 0 .. m
    BY <2>3
  <2>5. k - 1 \notin Bad
    BY <2>2, <2>4
  <2>6. H(k - 1) = F + G(k - 1)
    BY <2>4, <2>5
  <2> QED
    BY <1>4, <2>4, <2>6
<1>6. H(m) = F + G(m)
  BY <1>5
<1> QED
  BY <1>6 DEF H, F, G

\* A sum of numbers that all go the same way, or nowhere.
LEMMA SumSigned ==
    ASSUME NEW f, NEW h, NEW S, IsFiniteSet(S), NEW s \in {-1, 0, 1},
           \A x \in S : f[x] \in Int /\ h[x] = s * f[x]
    PROVE  SumFunctionOnSet(h, S) = s * SumFunctionOnSet(f, S)
<1> DEFINE F == SumFunctionOnSet(f, S)
           H == SumFunctionOnSet(h, S)
<1>1. F \in Int
  BY SumInt
<1>2. CASE s = 1
  <2>1. \A x \in S : h[x] = f[x]
    BY <1>2
  <2>2. H = F
    BY <2>1, SumSame
  <2> HIDE DEF F, H
  <2> QED
    BY <1>1, <1>2, <2>2 DEF F, H
<1>3. CASE s = 0
  <2>1. \A x \in S : h[x] = 0
    BY <1>3
  <2>2. H = 0
    BY <2>1, SumZero
  <2> HIDE DEF F, H
  <2>3. H = s * F
    BY <1>1, <1>3, <2>2
  <2> QED
    BY <2>3 DEF F, H
<1>4. CASE s = -1
  <2> DEFINE z == [x \in S |-> 0]
  <2>1. \A x \in S : f[x] \in Int /\ h[x] \in Int /\ z[x] = f[x] + h[x]
    BY <1>4
  <2>2. SumFunctionOnSet(z, S) = F + H
    BY <2>1, SumPlus
  <2>3. SumFunctionOnSet(z, S) = 0
    BY SumZero
  <2>4. H \in Int
    BY <2>1, SumInt
  <2> HIDE DEF F, H
  <2>5. H = s * F
    BY <1>1, <1>4, <2>2, <2>3, <2>4
  <2> QED
    BY <2>5 DEF F, H
<1> QED
  BY <1>2, <1>3, <1>4

\* What a party's fill does to an account: the sign of the order there, times
\* what was traded of that asset.
LEMMA EffectIs ==
    ASSUME NEW f, f.qty \in Nat, f.quote \in Nat, NEW o, o.side \in Sides, NEW u, NEW a \in {"base", "quote"}
    PROVE  /\ Effect(f, o, <<u, a>>) = Sign(o, u, a) * (IF a = "base" THEN f.qty ELSE f.quote)
           /\ Sign(o, u, a) \in {-1, 0, 1}
<1>1. Sign(o, u, a) \in {-1, 0, 1}
  BY DEF Sign
<1> DEFINE x == IF a = "base" THEN f.qty ELSE f.quote
<1>2. x \in Nat
  OBVIOUS
<1>3. CASE o.user # u
  <2>1. Effect(f, o, <<u, a>>) = 0 /\ Sign(o, u, a) = 0
    BY <1>3 DEF Effect, GetRow, PayRow, Sign
  <2> HIDE DEF x
  <2>2. Effect(f, o, <<u, a>>) = Sign(o, u, a) * x
    BY <1>2, <2>1
  <2> QED
    BY <1>1, <2>2 DEF x
<1>4. CASE o.user = u /\ GetAsset(o.side) = a
  <2>1. PayAsset(o.side) # a
    BY <1>4 DEF GetAsset, PayAsset
  <2>2. <<u, a>> = GetRow(o) /\ <<u, a>> # PayRow(o)
    BY <1>4, <2>1 DEF GetRow, PayRow
  <2>3. Gain(o, f.qty, f.quote) = x
    BY <1>4 DEF Gain, GetAsset, Sides
  <2>4. Effect(f, o, <<u, a>>) = x /\ Sign(o, u, a) = 1
    BY <1>2, <1>4, <2>2, <2>3 DEF Effect, Sign
  <2> HIDE DEF x
  <2>5. Effect(f, o, <<u, a>>) = Sign(o, u, a) * x
    BY <1>2, <2>4
  <2> QED
    BY <1>1, <2>5 DEF x
<1>5. CASE o.user = u /\ GetAsset(o.side) # a
  <2>1. PayAsset(o.side) = a
    BY <1>5 DEF GetAsset, PayAsset
  <2>2. <<u, a>> # GetRow(o) /\ <<u, a>> = PayRow(o)
    BY <1>5, <2>1 DEF GetRow, PayRow
  <2>3. Cost(o, f.qty, f.quote) = x
    BY <2>1 DEF Cost, PayAsset, Sides
  <2>4. Effect(f, o, <<u, a>>) = 0 - x /\ Sign(o, u, a) = -1
    BY <1>2, <1>5, <2>2, <2>3 DEF Effect, Sign
  <2> HIDE DEF x
  <2>5. Effect(f, o, <<u, a>>) = Sign(o, u, a) * x
    BY <1>2, <2>4
  <2> QED
    BY <1>1, <2>5 DEF x
<1> QED
  BY <1>3, <1>4, <1>5

\* The trades of the batch.
NewTrades ==
    [i \in 1 .. Len(worker.fills) - 1 |->
        [taker |-> worker.msg.id, maker |-> worker.fills[i].id, price |-> worker.fills[i].price,
         qty |-> worker.fills[i].qty]]

\* What a trade brings user u of asset a.
Brings(t, u, a) == (Sign(orders[t.taker], u, a) + Sign(orders[t.maker], u, a)) * Amount(t, a)

\* The trades of a batch that is about to be committed: within the limits of
\* committed orders, with each maker once and never the taker itself.
BatchTrades(b, n) ==
    /\ n \in Nat /\ n > 1 /\ b \in Seq(Trade) /\ Len(b) = n - 1
    /\ \A i \in 1 .. n - 1 : /\ b[i] \in Trade /\ b[i].taker = worker.msg.id /\ b[i].taker \in Ids
                             /\ b[i].maker = worker.fills[i].id /\ b[i].maker \in Ids
                             /\ b[i].price = worker.fills[i].price /\ b[i].price \in Nat
                             /\ b[i].qty = worker.fills[i].qty /\ b[i].qty \in Nat /\ b[i].qty > 0
                             /\ TradeOk(b[i])
    /\ \A i, j \in 1 .. n - 1 : b[i].maker = b[j].maker => i = j
    /\ \A i \in 1 .. n - 1 : b[i].maker # worker.msg.id
    /\ worker.fills[n].id = worker.msg.id

\* The trades of a committed batch are such.
LEMMA NewTradesAre ==
    ASSUME Ind, worker.pc = "commit", NEW b, b = NewTrades, NEW n, n = Len(worker.fills)
    PROVE  BatchTrades(b, n)
<1>1. worker.pc \in BatchPCs /\ worker.pc \in SettlePCs /\ worker.pc # "idle"
  BY DEF BatchPCs, SettlePCs
<1>2. BatchOk(worker) /\ \A i \in 1 .. n : orders[worker.fills[i].id].status # "none"
  BY <1>1 DEF Ind, Batch
<1>3. n \in Nat /\ n > 1
  BY <1>2, WorkerParts DEF BatchOk
<1>4. worker.msg.id \in Ids /\ PlaceOk(worker.msg) /\ orders[worker.msg.id].status # "none" /\ worker.fills[n].id = worker.msg.id
  BY <1>1, <1>2, <1>3, WorkerParts DEF BatchOk, Ind, Posted
<1>5. ASSUME NEW i \in 1 .. n - 1
      PROVE  /\ b[i].taker = worker.msg.id /\ b[i].maker = worker.fills[i].id
             /\ b[i].price = worker.fills[i].price /\ b[i].qty = worker.fills[i].qty
             /\ b[i] = [taker |-> worker.msg.id, maker |-> worker.fills[i].id, price |-> worker.fills[i].price,
                        qty |-> worker.fills[i].qty]
  BY DEF NewTrades
<1>6. ASSUME NEW i \in 1 .. n - 1
      PROVE  /\ worker.fills[i].id \in Ids /\ worker.fills[i].price \in Nat /\ worker.fills[i].qty \in Nat
             /\ worker.fills[i].id # worker.msg.id /\ worker.fills[i].qty > 0
             /\ MakerOk(worker.msg, worker.fills[i]) /\ orders[worker.fills[i].id].status # "none"
  <2>1. i \in 1 .. n /\ n \in 1 .. n /\ i # n
    BY <1>3
  <2>2. MakerOk(worker.msg, worker.fills[i])
    BY <1>2 DEF BatchOk
  <2> QED
    BY <1>2, <1>4, <2>1, <2>2, WorkerParts DEF BatchOk, MakerOk
<1>7. ASSUME NEW i \in 1 .. n - 1
      PROVE  b[i] \in Trade
  <2>1. [taker |-> worker.msg.id, maker |-> worker.fills[i].id, price |-> worker.fills[i].price,
         qty |-> worker.fills[i].qty] \in Trade
    BY <1>4, <1>6 DEF Trade
  <2> QED
    BY <1>5, <2>1
<1>8. b \in Seq(Trade) /\ Len(b) = n - 1
  <2>1. b \in [1 .. n - 1 -> Trade]
    <3>1. DOMAIN b = 1 .. n - 1 /\ b = [i \in DOMAIN b |-> b[i]]
      BY DEF NewTrades
    <3> QED
      BY <1>7, <3>1
  <2>2. n - 1 \in Nat
    BY <1>3
  <2> QED
    BY <2>1, <2>2
<1>9. ASSUME NEW i \in 1 .. n - 1
      PROVE  TradeOk(b[i])
  <2>1. PICK tk, mk : tk = orders[worker.msg.id] /\ mk = orders[worker.fills[i].id]
    OBVIOUS
  <2>2. tk.status # "none" /\ mk.status # "none"
    BY <1>4, <1>6, <2>1
  <2>3. tk.side = worker.msg.side /\ tk.price = worker.msg.price
    BY <1>4, <2>1 DEF PlaceOk, Listed
  <2>4. /\ mk.side = Opposite(worker.msg.side) /\ mk.price = worker.fills[i].price
        /\ Crosses(worker.msg.side, worker.msg.price, worker.fills[i].price)
    BY <1>6, <2>1 DEF MakerOk, Listed
  <2>5. worker.msg.side \in Sides
    BY <1>1, WorkerParts DEF MessageRow
  <2>6. worker.msg.side = Opposite(Opposite(worker.msg.side))
    BY <2>5 DEF Opposite, Sides
  <2> QED
    BY <1>5, <2>1, <2>2, <2>3, <2>4, <2>6 DEF TradeOk
<1>10. \A i, j \in 1 .. n - 1 : b[i].maker = b[j].maker => i = j
  <2>1. \A i \in 1 .. n - 1 : i \in 1 .. n
    BY <1>3
  <2>2. \A i, j \in 1 .. n : worker.fills[i].id = worker.fills[j].id => i = j
    BY <1>2 DEF BatchOk
  <2> SUFFICES ASSUME NEW i \in 1 .. n - 1, NEW j \in 1 .. n - 1, b[i].maker = b[j].maker
               PROVE  i = j
    OBVIOUS
  <2>3. b[i].maker = worker.fills[i].id /\ b[j].maker = worker.fills[j].id
    BY <1>5
  <2> QED
    BY <2>1, <2>2, <2>3
<1>11. \A i \in 1 .. n - 1 : /\ b[i] \in Trade /\ b[i].taker = worker.msg.id /\ b[i].taker \in Ids
                              /\ b[i].maker = worker.fills[i].id /\ b[i].maker \in Ids
                              /\ b[i].price = worker.fills[i].price /\ b[i].price \in Nat
                              /\ b[i].qty = worker.fills[i].qty /\ b[i].qty \in Nat /\ b[i].qty > 0
                              /\ TradeOk(b[i])
  BY <1>4, <1>5, <1>6, <1>7, <1>9
<1>12. ASSUME NEW i \in 1 .. n - 1
       PROVE  b[i].maker # worker.msg.id
  <2>1. b[i].maker = worker.fills[i].id
    BY ONLY <1>5, i \in 1 .. n - 1
  <2>2. worker.fills[i].id # worker.msg.id
    BY ONLY <1>6, i \in 1 .. n - 1
  <2> QED
    BY ONLY <2>1, <2>2
<1>13. n \in Nat /\ n > 1 /\ worker.fills[n].id = worker.msg.id
  BY <1>3, <1>4
<1> QED
  BY ONLY <1>8, <1>10, <1>11, <1>12, <1>13 DEF BatchTrades

\* What each trade of a batch brings an account.
BatchBrings(b, u, a) == [i \in 1 .. Len(b) |-> Brings(b[i], u, a)]

\* The transaction changes row r by the sum of g.
RowMovesBy(r, b, g) ==
    /\ \A i \in 1 .. Len(b) : g[i] \in Int
    /\ worker.acc[r].locked + worker.acc[r].available = SumFunctionOnSet(g, 1 .. Len(b))

\* What the transaction changes in an account is what its trades bring: what
\* the makers pay is what the taker gets, and the other way round.
LEMMA BatchMoves ==
    ASSUME Ind, worker.pc = "commit", NEW b, b = NewTrades, NEW u, NEW a \in {"base", "quote"},
           NEW r, r = <<u, a>>, r \in Rows, NEW g, g = BatchBrings(b, u, a)
    PROVE  RowMovesBy(r, b, g)
<1> SUFFICES /\ \A i \in 1 .. Len(b) : g[i] \in Int
             /\ worker.acc[<<u, a>>].locked + worker.acc[<<u, a>>].available = SumFunctionOnSet(g, 1 .. Len(b))
  BY DEF RowMovesBy
<1>g. g = [i \in 1 .. Len(b) |-> Brings(b[i], u, a)]
  BY DEF BatchBrings
<1>0. PICK n, fs : n = Len(worker.fills) /\ fs = worker.fills
  OBVIOUS
<1>t. BatchTrades(b, n)
  BY ONLY Ind, worker.pc = "commit", b = NewTrades, <1>0, NewTradesAre
<1>1. /\ n \in Nat /\ n > 1 /\ Len(b) = n - 1
      /\ \A i \in 1 .. n - 1 : /\ b[i].taker = worker.msg.id /\ b[i].maker = fs[i].id /\ b[i].price = fs[i].price
                               /\ b[i].qty = fs[i].qty
      /\ fs[n].id = worker.msg.id
  BY ONLY <1>0, <1>t DEF BatchTrades
<1>2. worker.pc \in BatchPCs /\ worker.pc \in SettlePCs
  BY DEF BatchPCs, SettlePCs
<1>3. BatchOk(worker)
  BY <1>2 DEF Ind, Batch
<1>4. PICK e : e = Effects(r)
  OBVIOUS
<1>5. worker.acc[r].locked + worker.acc[r].available = SumFunctionOnSet(e, 1 .. n)
  BY <1>0, <1>2, <1>4 DEF Ind, Summed, Settled
<1>6. ASSUME NEW i \in 1 .. n
      PROVE  /\ fs[i].qty \in Nat /\ fs[i].quote \in Nat /\ orders[fs[i].id].side \in Sides
             /\ e[i] = Effect(fs[i], orders[fs[i].id], r) /\ e[i] \in Int
  <2>1. fs[i].qty \in Nat /\ fs[i].quote \in Nat
    BY <1>0, WorkerParts
  <2>2. orders[fs[i].id] \in Order /\ Effect(fs[i], orders[fs[i].id], r) \in Int
    BY <1>0, <1>2, PartyAmounts
  <2>3. orders[fs[i].id].side \in Sides
    BY <2>2 DEF Order, Sides
  <2>4. e[i] = Effect(fs[i], orders[fs[i].id], r)
    BY <1>0, <1>4 DEF Effects
  <2> QED
    BY <2>1, <2>2, <2>3, <2>4
<1> DEFINE x(i) == IF a = "base" THEN fs[i].qty ELSE fs[i].quote
           xs == [i \in 1 .. n - 1 |-> x(i)]
           s(i) == Sign(orders[fs[i].id], u, a)
<1>7. ASSUME NEW i \in 1 .. n
      PROVE  e[i] = s(i) * x(i) /\ s(i) \in {-1, 0, 1} /\ x(i) \in Nat
  <2>1. PICK f, o : f = fs[i] /\ o = orders[fs[i].id]
    OBVIOUS
  <2>2. f.qty \in Nat /\ f.quote \in Nat /\ o.side \in Sides /\ e[i] = Effect(f, o, <<u, a>>)
    BY <1>0, <1>6, <2>1
  <2>3. /\ Effect(f, o, <<u, a>>) = Sign(o, u, a) * (IF a = "base" THEN f.qty ELSE f.quote)
        /\ Sign(o, u, a) \in {-1, 0, 1}
    BY <2>2, EffectIs
  <2> QED
    BY <2>1, <2>2, <2>3
<1>8. ASSUME NEW i \in 1 .. n - 1
      PROVE  i \in 1 .. n /\ Amount(b[i], a) = x(i) /\ Brings(b[i], u, a) = (s(n) + s(i)) * x(i)
  <2>1. i \in 1 .. n
    BY <1>1
  <2>2. MakerOk(worker.msg, fs[i])
    BY <1>0, <1>1, <1>3 DEF BatchOk
  <2>3. fs[i].quote = fs[i].price * fs[i].qty
    BY <2>2 DEF MakerOk
  <2>4. Amount(b[i], a) = x(i)
    BY <1>1, <2>3 DEF Amount
  <2> QED
    BY <1>1, <2>1, <2>4 DEF Brings
<1>9. x(n) = SumFunctionOnSet(xs, 1 .. n - 1)
  <2>1. /\ fs[n].qty = SumFunctionOnSet([i \in 1 .. n - 1 |-> fs[i].qty], 1 .. n - 1)
        /\ fs[n].quote = SumFunctionOnSet([i \in 1 .. n - 1 |-> fs[i].quote], 1 .. n - 1)
    BY <1>0, <1>3 DEF BatchOk
  <2>2. CASE a = "base"
    <3>1. xs = [i \in 1 .. n - 1 |-> fs[i].qty]
      BY <2>2
    <3> QED
      BY <2>1, <2>2, <3>1
  <2>3. CASE a = "quote"
    <3>1. xs = [i \in 1 .. n - 1 |-> fs[i].quote]
      BY <2>3
    <3> QED
      BY <2>1, <2>3, <3>1
  <2> QED
    BY <2>2, <2>3
<1>10. n - 1 \in Nat /\ (n - 1) + 1 = n /\ n \in 1 .. n /\ IsFiniteSet(1 .. n - 1)
  BY <1>1, FS_Interval
<1>11. \A i \in 1 .. n - 1 : xs[i] = x(i)
  OBVIOUS
<1> DEFINE h == [i \in 1 .. n - 1 |-> s(n) * x(i)]
<1>12. \A i \in 1 .. n - 1 : h[i] = s(n) * x(i)
  OBVIOUS
<1> HIDE DEF x, xs, s, h
<1>13. SumFunctionOnSet(e, 1 .. n) = SumFunctionOnSet(e, 1 .. n - 1) + e[n]
  <2>1. \A i \in 1 .. (n - 1) + 1 : e[i] \in Int
    BY <1>6, <1>10
  <2> QED
    BY <1>10, <2>1, SumUpTo
<1>14. SumFunctionOnSet(h, 1 .. n - 1) = s(n) * SumFunctionOnSet(xs, 1 .. n - 1)
  <2>1. \A i \in 1 .. n - 1 : xs[i] \in Int /\ h[i] = s(n) * xs[i]
    BY <1>7, <1>8, <1>11, <1>12
  <2>2. s(n) \in {-1, 0, 1}
    BY <1>7, <1>10
  <2>3. PICK S, t : S = 1 .. n - 1 /\ t = s(n)
    OBVIOUS
  <2>4. IsFiniteSet(S) /\ t \in {-1, 0, 1} /\ \A i \in S : xs[i] \in Int /\ h[i] = t * xs[i]
    BY <1>10, <2>1, <2>2, <2>3
  <2>5. SumFunctionOnSet(h, S) = t * SumFunctionOnSet(xs, S)
    BY <2>4, SumSigned
  <2> QED
    BY <2>3, <2>5
<1>15. SumFunctionOnSet(h, 1 .. n - 1) = e[n]
  BY <1>7, <1>9, <1>10, <1>14
<1>16. ASSUME NEW i \in 1 .. n - 1
       PROVE  e[i] \in Int /\ h[i] \in Int /\ g[i] = e[i] + h[i] /\ g[i] \in Int
  <2>1. g[i] = (s(n) + s(i)) * x(i)
    <3>1. g[i] = Brings(b[i], u, a)
      BY <1>1, <1>g
    <3> QED
      BY ONLY <1>8, <3>1, i \in 1 .. n - 1
  <2>2. s(n) \in {-1, 0, 1} /\ s(i) \in {-1, 0, 1} /\ x(i) \in Nat /\ e[i] = s(i) * x(i)
    BY <1>7, <1>8, <1>10
  <2>3. h[i] = s(n) * x(i)
    BY <1>12
  <2>4. PICK p, q, y : p = s(n) /\ q = s(i) /\ y = x(i)
    OBVIOUS
  <2>5. (p + q) * y = q * y + p * y /\ p * y \in Int /\ q * y \in Int
    BY <2>2, <2>4
  <2> QED
    BY <2>1, <2>2, <2>3, <2>4, <2>5
<1>17. SumFunctionOnSet(g, 1 .. n - 1) = SumFunctionOnSet(e, 1 .. n - 1) + SumFunctionOnSet(h, 1 .. n - 1)
  <2>1. PICK S, t : S = 1 .. n - 1 /\ t = h
    OBVIOUS
  <2>2. IsFiniteSet(S)
    BY <1>10, <2>1
  <2>3. \A i \in S : e[i] \in Int /\ t[i] \in Int /\ g[i] = e[i] + t[i]
    BY <1>16, <2>1
  <2>4. SumFunctionOnSet(g, S) = SumFunctionOnSet(e, S) + SumFunctionOnSet(t, S)
    BY ONLY <2>2, <2>3, SumPlus
  <2> QED
    BY <2>1, <2>4
<1>18. SumFunctionOnSet(g, 1 .. n - 1) = SumFunctionOnSet(e, 1 .. n)
  BY <1>13, <1>15, <1>17
<1> QED
  BY <1>0, <1>1, <1>5, <1>16, <1>18

\* What the commit writes in the orders: each party's fill, and nothing else.
LEMMA CommitOrders ==
    ASSUME Ind, WorkerCommit, NEW id \in Ids
    PROVE  /\ orders'[id] \in Order /\ SameTerms(orders'[id], orders[id])
           /\ orders[id].status # "none" => orders'[id].status # "none"
           /\ orders[id].status = "none" => orders'[id] = orders[id]
           /\ \A i \in 1 .. Len(worker.fills) :
                  worker.fills[i].id = id => orders'[id].filled = orders[id].filled + worker.fills[i].qty
           /\ (\A i \in 1 .. Len(worker.fills) : worker.fills[i].id # id) => orders'[id] = orders[id]
<1>1. worker.pc = "commit" /\ worker.pc \in BatchPCs /\ worker.pc \in SettlePCs
  BY DEF WorkerCommit, BatchPCs, SettlePCs
<1>2. PICK fs, n, o : fs = worker.fills /\ n = Len(worker.fills) /\ o = orders[id]
  OBVIOUS
<1>3. /\ DOMAIN fs = 1 .. n
      /\ \A i \in 1 .. n : fs[i].qty \in Nat
      /\ \A i \in 1 .. n : orders[fs[i].id].status # "none"
      /\ \A i, j \in 1 .. n : fs[i].id = fs[j].id => i = j
  <2>1. DOMAIN fs = 1 .. n /\ \A i \in 1 .. n : fs[i].qty \in Nat
    BY <1>2, WorkerParts
  <2>2. (\A i \in 1 .. n : orders[fs[i].id].status # "none") /\ BatchOk(worker)
    BY <1>1, <1>2 DEF Ind, Batch
  <2>3. \A i, j \in 1 .. n : fs[i].id = fs[j].id => i = j
    BY <1>2, <2>2 DEF BatchOk
  <2> QED
    BY <2>1, <2>2, <2>3
<1>4. o \in Order
  BY <1>2 DEF Ind, Typed, TypedPg
<1> DEFINE of == {k \in DOMAIN fs : fs[k].id = id}
<1>5. orders'[id] = IF of = {} THEN o ELSE update_fill(o, fs[CHOOSE k \in of : TRUE].qty)
  BY <1>2 DEF WorkerCommit
<1>6. CASE of = {}
  <2>1. orders'[id] = o
    BY <1>5, <1>6
  <2>2. \A i \in 1 .. n : fs[i].id # id
    BY <1>3, <1>6
  <2> QED
    BY <1>2, <1>4, <2>1, <2>2 DEF SameTerms
<1>7. CASE of # {}
  <2>1. PICK k \in of : k = CHOOSE j \in of : TRUE
    BY <1>7
  <2>2. k \in 1 .. n /\ fs[k].id = id /\ fs[k].qty \in Nat
    BY <1>3, <2>1
  <2>3. PICK q \in Nat : q = fs[k].qty
    BY <2>2
  <2>4. orders'[id] = update_fill(o, q)
    BY <1>5, <1>7, <2>1, <2>3
  <2>5. o.status # "none"
    BY <1>2, <1>3, <2>2
  <2>6. PICK f, st : f = o.filled + q /\ st = StatusAfter(o, q)
    OBVIOUS
  <2>7. orders'[id] = [o EXCEPT !.filled = f, !.status = st]
    BY <2>4, <2>6 DEF update_fill
  <2>8. st \in Statuses /\ st # "none"
    BY <2>6 DEF StatusAfter, Statuses, Active
  <2>9. f \in Nat
    BY <1>4, <2>6 DEF Order
  <2>10. /\ orders'[id] \in Order /\ orders'[id].user = o.user /\ orders'[id].side = o.side
         /\ orders'[id].price = o.price /\ orders'[id].status = st /\ orders'[id].filled = f
    BY <1>4, <2>7, <2>8, <2>9 DEF Order
  <2>11. ASSUME NEW i \in 1 .. n, fs[i].id = id
         PROVE  orders'[id].filled = o.filled + fs[i].qty
    <3>1. i = k
      BY <1>3, <2>2, <2>11
    <3> QED
      BY <2>3, <2>6, <2>10, <3>1
  <2>12. ~(\A i \in 1 .. n : fs[i].id # id)
    BY <2>2
  <2> QED
    BY <1>2, <2>5, <2>8, <2>10, <2>11, <2>12 DEF SameTerms
<1> QED
  BY <1>6, <1>7

\* ... in the balances: what the transaction has settled, in rows it holds ...
LEMMA CommitBalances ==
    ASSUME Ind, WorkerCommit
    PROVE  /\ bal' \in [Rows -> [locked : Nat, available : Nat]]
           /\ \A r \in Rows : bal'[r].locked + bal'[r].available =
                  (bal[r].locked + bal[r].available) + (worker.acc[r].locked + worker.acc[r].available)
           /\ \A r \in Rows : balLock[r] # Worker => bal'[r] = bal[r]
<1>1. bal' = [r \in Rows |-> [locked |-> bal[r].locked + worker.acc[r].locked,
                              available |-> bal[r].available + worker.acc[r].available]]
  BY DEF WorkerCommit
<1>2. ASSUME NEW r \in Rows
      PROVE  /\ bal'[r] \in [locked : Nat, available : Nat]
             /\ bal'[r].locked + bal'[r].available =
                    (bal[r].locked + bal[r].available) + (worker.acc[r].locked + worker.acc[r].available)
             /\ balLock[r] # Worker => bal'[r] = bal[r]
  <2>1. bal[r] \in [locked : Nat, available : Nat]
    BY DEF Ind, Typed, TypedPg
  <2>2. worker.acc[r] \in Amounts
    BY WorkerParts
  <2>3. PICK x, y, l, v : x = worker.acc[r].locked /\ y = worker.acc[r].available /\ l = bal[r].locked /\ v = bal[r].available
    OBVIOUS
  <2>4. x \in Int /\ y \in Int /\ l \in Nat /\ v \in Nat
    BY <2>1, <2>2, <2>3 DEF Amounts
  <2>5. l + x >= 0 /\ y >= 0 /\ (worker.acc[r] # [locked |-> 0, available |-> 0] => balLock[r] = Worker)
    BY <2>3 DEF Ind, Account
  <2>6. bal'[r] = [locked |-> l + x, available |-> v + y]
    BY <1>1, <2>3
  <2>7. bal'[r].locked = l + x /\ bal'[r].available = v + y
    BY <2>6
  <2>8. l + x \in Nat /\ v + y \in Nat /\ (l + x) + (v + y) = (l + v) + (x + y)
    BY <2>4, <2>5
  <2>9. ASSUME balLock[r] # Worker
        PROVE  bal'[r] = bal[r]
    <3>1. worker.acc[r] = [locked |-> 0, available |-> 0]
      BY <2>5, <2>9
    <3>2. x = 0 /\ y = 0
      BY <2>3, <3>1
    <3>3. l + x = l /\ v + y = v
      BY <2>4, <3>2
    <3> QED
      BY <2>1, <2>3, <2>6, <3>3
  <2> QED
    BY <2>3, <2>6, <2>7, <2>8, <2>9
<1> QED
  BY <1>1, <1>2

\* ... and in the trades: those of the batch.
LEMMA CommitTrades ==
    ASSUME Ind, WorkerCommit, NEW b, b = NewTrades
    PROVE  /\ trades' = trades \o b /\ trades' \in Seq(Trade) /\ Len(trades') = Len(trades) + Len(b)
           /\ Len(trades) \in Nat /\ Len(b) \in Nat /\ b \in Seq(Trade) /\ trades \in Seq(Trade)
           /\ \A i \in 1 .. Len(trades) : trades'[i] = trades[i]
           /\ \A i \in 1 .. Len(b) : trades'[Len(trades) + i] = b[i]
<1>1. worker.pc = "commit"
  BY DEF WorkerCommit
<1>2. trades \in Seq(Trade) /\ b \in Seq(Trade)
  <2>1. PICK n : n = Len(worker.fills)
    OBVIOUS
  <2>2. BatchTrades(b, n)
    BY ONLY Ind, b = NewTrades, <1>1, <2>1, NewTradesAre
  <2> QED
    BY <2>2 DEF BatchTrades, Ind, Typed, TypedPg
<1>3. trades' = trades \o b
  BY DEF WorkerCommit, NewTrades
<1>4. Len(trades) \in Nat /\ Len(b) \in Nat
  BY <1>2
<1>5. Len(trades \o b) = Len(trades) + Len(b) /\ trades \o b \in Seq(Trade)
  BY <1>2, ConcatProperties
<1>6. ASSUME NEW i \in 1 .. Len(trades)
      PROVE  (trades \o b)[i] = trades[i]
  <2>1. i \in 1 .. Len(trades) + Len(b) /\ i <= Len(trades)
    BY <1>4
  <2> QED
    BY <1>2, <2>1, ConcatProperties
<1>7. ASSUME NEW i \in 1 .. Len(b)
      PROVE  (trades \o b)[Len(trades) + i] = b[i]
  <2>1. PICK j : j = Len(trades) + i
    OBVIOUS
  <2>2. j \in 1 .. Len(trades) + Len(b) /\ ~(j <= Len(trades)) /\ j - Len(trades) = i
    BY <1>4, <2>1
  <2>3. (trades \o b)[j] = b[j - Len(trades)]
    BY <1>2, <2>2, ConcatProperties
  <2> QED
    BY <2>1, <2>2, <2>3
<1> QED
  BY <1>2, <1>3, <1>4, <1>5, <1>6, <1>7

\* What the trades say of an account grows by what the batch brings it.
LEMMA NetGrows ==
    ASSUME Ind, WorkerCommit, NEW b, b = NewTrades, NEW u, NEW a \in {"base", "quote"},
           NEW g, g = [i \in 1 .. Len(b) |-> Brings(b[i], u, a)], \A i \in 1 .. Len(b) : g[i] \in Int
    PROVE  NetOfTrades(u, a)' = NetOfTrades(u, a) + SumFunctionOnSet(g, 1 .. Len(b))
<1>1. PICK n, m : n = Len(trades) /\ m = Len(b)
  OBVIOUS
<1>2. /\ n \in Nat /\ m \in Nat /\ trades \in Seq(Trade) /\ trades' \in Seq(Trade) /\ Len(trades') = n + m
      /\ \A i \in 1 .. n : trades'[i] = trades[i]
      /\ \A i \in 1 .. m : trades'[n + i] = b[i]
      /\ b \in Seq(Trade)
  BY <1>1, CommitTrades
<1>3. DOMAIN trades = 1 .. n /\ DOMAIN trades' = 1 .. n + m
  BY <1>1, <1>2
<1> DEFINE f == [i \in DOMAIN trades |-> Brings(trades[i], u, a)]
           h == [i \in DOMAIN trades' |->
                    (Sign(orders'[trades'[i].taker], u, a) + Sign(orders'[trades'[i].maker], u, a)) * Amount(trades'[i], a)]
<1>4. NetOfTrades(u, a) = SumFunction(f)
  BY DEF NetOfTrades, Brings, Sign, Amount
<1>5. NetOfTrades(u, a)' = SumFunction(h)
  BY DEF NetOfTrades, Sign, Amount
<1>6. SumFunction(f) = SumFunctionOnSet(f, 1 .. n) /\ SumFunction(h) = SumFunctionOnSet(h, 1 .. n + m)
  <2>1. DOMAIN f = 1 .. n /\ DOMAIN h = 1 .. n + m
    BY <1>3
  <2> QED
    BY <2>1 DEF SumFunction
<1>7. ASSUME NEW t \in Trade, NEW i \in DOMAIN trades', trades'[i] = t
      PROVE  h[i] = Brings(t, u, a) /\ Brings(t, u, a) \in Int
  <2>1. t.taker \in Ids /\ t.maker \in Ids /\ t.price \in Nat /\ t.qty \in Nat
    BY DEF Trade
  <2>2. SameTerms(orders'[t.taker], orders[t.taker]) /\ SameTerms(orders'[t.maker], orders[t.maker])
    BY <2>1, CommitOrders
  <2>3. /\ Sign(orders'[t.taker], u, a) = Sign(orders[t.taker], u, a)
        /\ Sign(orders'[t.maker], u, a) = Sign(orders[t.maker], u, a)
    BY <2>2 DEF SameTerms, Sign
  <2>4. h[i] = Brings(t, u, a)
    BY <1>7, <2>3 DEF Brings
  <2>5. Amount(t, a) \in Nat
    BY <2>1 DEF Amount
  <2>6. Sign(orders[t.taker], u, a) \in Int /\ Sign(orders[t.maker], u, a) \in Int
    BY DEF Sign
  <2> QED
    BY <2>4, <2>5, <2>6 DEF Brings
<1>8. ASSUME NEW i \in 1 .. n
      PROVE  f[i] \in Int /\ h[i] = f[i]
  <2>1. i \in DOMAIN trades /\ i \in DOMAIN trades' /\ trades[i] \in Trade /\ trades'[i] = trades[i]
    BY <1>2, <1>3
  <2>2. h[i] = Brings(trades[i], u, a) /\ Brings(trades[i], u, a) \in Int
    BY <1>7, <2>1
  <2> QED
    BY <2>1, <2>2
<1>9. ASSUME NEW i \in 1 .. m
      PROVE  g[i] \in Int /\ h[n + i] = g[i]
  <2>1. n + i \in DOMAIN trades' /\ b[i] \in Trade /\ trades'[n + i] = b[i]
    BY <1>1, <1>2, <1>3
  <2>2. h[n + i] = Brings(b[i], u, a)
    BY <1>7, <2>1
  <2> QED
    BY <1>1, <2>2
<1> HIDE DEF f, h
<1>10. SumFunctionOnSet(h, 1 .. n + m) = SumFunctionOnSet(f, 1 .. n) + SumFunctionOnSet(g, 1 .. m)
  <2>1. PICK p, q : p = f /\ q = h
    OBVIOUS
  <2>2. /\ n \in Nat /\ m \in Nat
        /\ \A i \in 1 .. n : p[i] \in Int /\ q[i] = p[i]
        /\ \A i \in 1 .. m : g[i] \in Int /\ q[n + i] = g[i]
    BY <1>2, <1>8, <1>9, <2>1
  <2>3. SumFunctionOnSet(q, 1 .. n + m) = SumFunctionOnSet(p, 1 .. n) + SumFunctionOnSet(g, 1 .. m)
    BY ONLY <2>2, SumConcat
  <2> QED
    BY <2>1, <2>3
<1> QED
  BY <1>1, <1>4, <1>5, <1>6, <1>10

\* The end of persist_trade_batch: the trades, the fills and the balances are
\* written together and agree.
LEMMA WorkerCommitKeeps ==
    ASSUME Ind, WorkerCommit, edition' = edition
    PROVE  Ind'
<1>1. worker.pc = "commit" /\ worker.pc # "idle"
  BY DEF WorkerCommit
<1>2. PICK b : b = NewTrades
  OBVIOUS
<1>3. UNCHANGED <<client, nextId, redis, dropped>>
  BY DEF WorkerCommit
<1>4. /\ client' = client /\ nextId' = nextId /\ dropped' = dropped
      /\ queue' = queue /\ book' = book /\ hash' = hash /\ seq' = seq
  BY <1>3 DEF redis
<1>5. /\ balLock' \in [Rows -> Actors \cup {NoOne}] /\ ordLock' \in [Ids -> Actors \cup {NoOne}]
      /\ \A r \in Rows : balLock[r] # Worker => balLock'[r] = balLock[r]
  <2>1. TypedPg /\ ReleaseRows(Worker) /\ Worker \in Actors
    BY DEF Ind, Typed, WorkerCommit, Actors
  <2> QED
    BY <2>1, Released
<1>6. TypedPg'
  <2>1. orders' \in [Ids -> Order]
    <3>1. DOMAIN orders' = Ids /\ orders' = [id \in DOMAIN orders' |-> orders'[id]]
      BY DEF WorkerCommit
    <3>2. \A id \in Ids : orders'[id] \in Order
      BY CommitOrders
    <3> QED
      BY <3>1, <3>2
  <2> QED
    BY <1>5, <2>1, CommitBalances, CommitTrades DEF TypedPg
<1>7. WorkerFrame
  <2>1. \A r \in Rows : balLock[r] \in Clients => balLock[r] # Worker
    BY ExchangeAssumption
  <2>2. \A r \in Rows : balLock[r] \in Clients => balLock'[r] = balLock[r] /\ bal'[r] = bal[r]
    BY <1>5, <2>1, CommitBalances
  <2>3. \A id \in Ids : /\ orders[id].status # "none" =>
                               orders'[id].status # "none" /\ SameTerms(orders'[id], orders[id])
                        /\ orders[id].status = "none" => orders'[id] = orders[id]
    BY CommitOrders
  <2> QED
    BY <1>4, <2>2, <2>3 DEF WorkerFrame
<1>8. Steady /\ Committed' /\ Requests' /\ Reserved'
  BY <1>7, WorkerSteady
<1>9. /\ worker' \in WorkerState /\ (worker'.pc # "idle" => worker'.msg = worker.msg)
      /\ Batch' /\ Account' /\ Summed'
  <2> DEFINE w == [worker EXCEPT !.acc = Untouched, !.fills = <<>>, !.k = 0]
  <2>1. worker \in WorkerState /\ worker.left \in Nat
    BY WorkerParts
  <2>2. Untouched \in [Rows -> Amounts] /\ <<>> \in Seq(Fill)
    BY DEF Untouched, Amounts
  <2>3. w \in WorkerState /\ w.msg = worker.msg /\ w.fills = <<>> /\ w.k = 0 /\ w.acc = Untouched
    BY <2>1, <2>2 DEF WorkerState
  <2>4. WorkerGoto(AfterTrades(worker.msg, worker.left), w)
    BY DEF WorkerCommit
  <2>5. \A r \in Rows : bal'[r].locked \in Nat
    BY <1>6 DEF TypedPg
  <2> HIDE DEF w
  <2> QED
    BY <1>1, <2>1, <2>3, <2>4, <2>5, TurnsTo
<1>10. Typed'
  <2>1. TypedRedis' /\ TypedActors'
    BY <1>4, <1>9 DEF Ind, Typed, TypedRedis, TypedActors
  <2> QED
    BY <1>6, <2>1 DEF Typed
<1>11. Posted' /\ Once'
  <2>1. PostFrame
    BY <1>1, <1>4, <1>9, PostOfWorker
  <2> QED
    BY <1>8, <2>1, PostKept DEF Ind, Typed
<1>12. /\ trades' \in Seq(Trade) /\ Len(trades') = Len(trades) + Len(b) /\ Len(trades) \in Nat /\ Len(b) \in Nat
       /\ trades \in Seq(Trade)
       /\ \A i \in 1 .. Len(trades) : trades'[i] = trades[i]
       /\ \A i \in 1 .. Len(b) : trades'[Len(trades) + i] = b[i]
  BY <1>2, CommitTrades
<1>13. ASSUME NEW t \in Trade, TradeOk(t)
       PROVE  TradeOk(t)'
  <2>1. t.taker \in Ids /\ t.maker \in Ids
    BY DEF Trade
  <2> QED
    BY <1>8, <1>13, <2>1 DEF TradeOk, Steady, SameTerms
<1>14. Traded'
  <2> SUFFICES ASSUME NEW i \in DOMAIN trades'
               PROVE  TradeOk(trades[i])'
    BY DEF Traded
  <2>1. i \in 1 .. Len(trades) + Len(b)
    BY <1>12
  <2>2. CASE i \in 1 .. Len(trades)
    <3>1. trades[i] \in Trade /\ TradeOk(trades[i]) /\ trades'[i] = trades[i]
      BY <1>12, <2>2 DEF Ind, Traded
    <3>2. PICK t : t = trades[i]
      OBVIOUS
    <3>3. TradeOk(t)' /\ t = trades'[i]
      BY <1>13, <3>1, <3>2
    <3> QED
      BY <3>3 DEF TradeOk
  <2>3. CASE i \notin 1 .. Len(trades)
    <3>1. PICK j \in 1 .. Len(b) : i = Len(trades) + j
      <4>1. i - Len(trades) \in 1 .. Len(b) /\ i = Len(trades) + (i - Len(trades))
        BY <1>12, <2>1, <2>3
      <4> QED
        BY <4>1
    <3>2. b[j] \in Trade /\ TradeOk(b[j])
      <4>1. PICK n : n = Len(worker.fills)
        OBVIOUS
      <4>2. BatchTrades(b, n)
        BY ONLY Ind, <1>1, <1>2, <4>1, NewTradesAre
      <4> QED
        BY ONLY <3>1, <4>2 DEF BatchTrades
    <3>3. PICK t : t = b[j]
      OBVIOUS
    <3>4. TradeOk(t)' /\ t = trades'[i]
      BY <1>12, <1>13, <3>1, <3>2, <3>3
    <3> QED
      BY <3>4 DEF TradeOk
  <2> QED
    BY <2>2, <2>3
<1>15. Held'
  <2> SUFFICES ASSUME NEW u \in Users, NEW a \in {"base", "quote"}, <<u, a>> \in Rows
               PROVE  bal'[<<u, a>>].locked + bal'[<<u, a>>].available - Start[<<u, a>>] = NetOfTrades(u, a)'
    BY DEF Held
  <2>1. PICK g, r : /\ g = [i \in 1 .. Len(b) |-> Brings(b[i], u, a)] /\ r = <<u, a>>
                    /\ g = BatchBrings(b, u, a) /\ r \in Rows /\ a \in {"base", "quote"}
    BY DEF BatchBrings
  <2>2. /\ \A i \in 1 .. Len(b) : g[i] \in Int
        /\ worker.acc[r].locked + worker.acc[r].available = SumFunctionOnSet(g, 1 .. Len(b))
    <3>1. RowMovesBy(r, b, g)
      BY ONLY Ind, <1>1, <1>2, <2>1, BatchMoves
    <3> QED
      BY ONLY <3>1 DEF RowMovesBy
  <2>3. NetOfTrades(u, a)' = NetOfTrades(u, a) + SumFunctionOnSet(g, 1 .. Len(b))
    BY <1>2, <2>1, <2>2, NetGrows
  <2>4. bal[r].locked + bal[r].available - Start[r] = NetOfTrades(u, a)
    BY <2>1 DEF Ind, Held
  <2>5. bal'[r].locked + bal'[r].available =
            (bal[r].locked + bal[r].available) + (worker.acc[r].locked + worker.acc[r].available)
    BY <2>1, CommitBalances
  <2>6. /\ bal[r].locked \in Nat /\ bal[r].available \in Nat /\ bal'[r].locked \in Nat /\ bal'[r].available \in Nat
        /\ worker.acc[r].locked \in Int /\ worker.acc[r].available \in Int /\ Start[r] \in Nat
    <3>1. bal[r] \in [locked : Nat, available : Nat] /\ bal'[r] \in [locked : Nat, available : Nat]
      BY <1>6, <2>1 DEF Ind, Typed, TypedPg
    <3>2. worker.acc[r] \in Amounts
      BY <2>1, WorkerParts
    <3>3. Start[r] \in Nat
      BY <2>1, ExchangeAssumption DEF Rows
    <3> QED
      BY <3>1, <3>2, <3>3 DEF Amounts
  <2>7. bal'[r].locked + bal'[r].available - Start[r] = NetOfTrades(u, a)'
    <3>1. PICK p, q, l, v, x, y, s, G, N :
              /\ p = bal'[r].locked /\ q = bal'[r].available /\ l = bal[r].locked /\ v = bal[r].available
              /\ x = worker.acc[r].locked /\ y = worker.acc[r].available /\ s = Start[r]
              /\ G = SumFunctionOnSet(g, 1 .. Len(b)) /\ N = NetOfTrades(u, a)
      OBVIOUS
    <3>2. p \in Nat /\ q \in Nat /\ l \in Nat /\ v \in Nat /\ x \in Int /\ y \in Int /\ s \in Nat
      BY <2>6, <3>1
    <3>3. p + q = (l + v) + (x + y) /\ x + y = G /\ l + v - s = N
      BY <2>2, <2>4, <2>5, <3>1
    <3>4. p + q - s = N + G
      BY ONLY <3>2, <3>3
    <3> QED
      BY <2>3, <3>1, <3>4
  <2> QED
    BY <2>1, <2>7
<1> QED
  BY <1>8, <1>9, <1>10, <1>11, <1>14, <1>15 DEF Ind

-----------------------------------------------------------------------------
(* The invariant holds.                                                    *)

\* The invariant holds at the start.
LEMMA InitInd ==
    ASSUME Init
    PROVE  Ind
<1>1. /\ bal = [r \in Rows |-> [locked |-> 0, available |-> Start[r]]]
      /\ orders = [id \in Ids |-> NoOrder] /\ trades = <<>>
      /\ balLock = [r \in Rows |-> NoOne] /\ ordLock = [id \in Ids |-> NoOne]
      /\ client = [c \in Clients |-> NoRequest] /\ nextId = 1
      /\ queue = <<>> /\ book = {} /\ hash = [id \in Ids |-> 0] /\ seq = 0
      /\ worker = IdleWorker /\ dropped = {} /\ edition \in Editions
  BY DEF Init
<1>2. \A r \in Rows : Start[r] \in Nat
  BY ExchangeAssumption DEF Rows
<1>3. TypedPg
  <2>1. bal \in [Rows -> [locked : Nat, available : Nat]]
    BY <1>1, <1>2
  <2>2. orders \in [Ids -> Order]
    BY <1>1, IdleTyped
  <2> QED
    BY <1>1, <2>1, <2>2 DEF TypedPg
<1>4. TypedRedis
  BY <1>1, FS_EmptySet DEF TypedRedis
<1>5. TypedActors
  <2>1. client \in [Clients -> Request]
    BY <1>1, IdleTyped
  <2>2. nextId \in 1 .. MaxOrders + 1
    BY <1>1, ExchangeAssumption
  <2> QED
    BY <1>1, <2>1, <2>2, IdleIs DEF TypedActors
<1>6. \A id \in Ids : orders[id].status = "none" /\ orders[id].filled = 0
  BY <1>1 DEF NoOrder
<1>7. Committed
  BY <1>6 DEF Committed
<1>8. \A c \in Clients : client[c] = NoRequest /\ NoRequest.pc = "idle" /\ NoRequest.new = 0 /\ NoRequest.old = 0 /\ NoRequest.shift = 0
  BY <1>1 DEF NoRequest
<1>9. Requests
  <2>1. \A c \in Clients : StageOk(c)
    BY <1>8 DEF StageOk, PlacePCs, CancelPCs, ModifyPCs
  <2> QED
    BY <1>8, <2>1 DEF Requests
<1>10. Reserved
  BY <1>8 DEF Reserved, ReserveOk
<1>11. worker.pc = "idle" /\ DOMAIN queue = {} /\ book = {}
  BY <1>1, IdleIs
<1>12. Posted /\ Once
  BY <1>8, <1>11 DEF Posted, Once, Waits, InHand, InBook
<1>13. /\ worker.fills = <<>> /\ worker.k = 0 /\ worker.acc = Untouched
       /\ \A r \in Rows : worker.acc[r] = [locked |-> 0, available |-> 0]
  BY <1>1, IdleIs
<1>14. Batch /\ Summed
  BY <1>1, <1>11, <1>13 DEF Batch, Summed, BatchPCs, SettlePCs
<1>15. Account
  <2>1. \A r \in Rows : worker.acc[r].locked = 0 /\ worker.acc[r].available = 0 /\ bal[r].locked = 0
    BY <1>1, <1>13
  <2> QED
    BY <1>11, <1>13, <2>1 DEF Account
<1>16. Traded
  BY <1>1 DEF Traded
<1>17. Held
  <2> SUFFICES ASSUME NEW u \in Users, NEW a \in {"base", "quote"}, <<u, a>> \in Rows
               PROVE  bal[<<u, a>>].locked + bal[<<u, a>>].available - Start[<<u, a>>] = NetOfTrades(u, a)
    BY DEF Held
  <2>1. bal[<<u, a>>].locked = 0 /\ bal[<<u, a>>].available = Start[<<u, a>>] /\ Start[<<u, a>>] \in Nat
    BY <1>1, <1>2
  <2> DEFINE f == [i \in DOMAIN trades |-> Brings(trades[i], u, a)]
  <2>2. NetOfTrades(u, a) = SumFunction(f)
    BY DEF NetOfTrades, Brings, Sign, Amount
  <2>3. DOMAIN f = {}
    BY <1>1
  <2> HIDE DEF f
  <2>4. SumFunction(f) = 0
    BY <2>3, SumEmpty DEF SumFunction
  <2> QED
    BY <2>1, <2>2, <2>4
<1> QED
  BY <1>3, <1>4, <1>5, <1>7, <1>9, <1>10, <1>12, <1>14, <1>15, <1>16, <1>17 DEF Ind, Typed

\* Every step of the worker keeps the invariant.
LEMMA WorkerKeeps ==
    ASSUME Ind, WorkerStep, edition' = edition
    PROVE  Ind'
BY WorkerPopKeeps, WorkerMatchKeeps, WorkerUsersKeeps, WorkerFlushKeeps, WorkerLockOrderKeeps,
   WorkerLockBalanceKeeps, WorkerSettleKeeps, WorkerCommitKeeps, WorkerRestHashKeeps, WorkerRestAddKeeps,
   WorkerRefundKeeps DEF WorkerStep

\* A worker that waits for a row has something in hand.
LEMMA WaitingWorker ==
    ASSUME Deadlocked(Worker)
    PROVE  worker.pc # "idle"
<1>1. PICK y : WaitsFor(Worker, y)
  BY DEF Deadlocked
<1> QED
  BY <1>1 DEF WaitsFor

\* Every step does.
LEMMA NextKeeps ==
    ASSUME Ind, Next
    PROVE  Ind'
<1>1. edition' = edition
  BY DEF Next
<1>2. ASSUME NEW c \in Clients, RequestBegins(c) \/ RequestStep(c) \/ RequestDies(c)
      PROVE  Ind'
  BY <1>1, <1>2, RequestKeeps
<1>3. CASE WorkerStep
  BY <1>1, <1>3, WorkerKeeps
<1>4. CASE WorkerDies
  BY <1>1, <1>4, WorkerFailsKeeps DEF WorkerDies
<1>5. ASSUME NEW x \in Actors, DeadlockAbort(x)
      PROVE  Ind'
  <2>1. CASE x = Worker
    <3>1. WorkerFails /\ worker.pc # "idle"
      BY <1>5, <2>1, WaitingWorker DEF DeadlockAbort
    <3> QED
      BY <1>1, <3>1, WorkerFailsKeeps
  <2>2. CASE x # Worker
    <3>1. x \in Clients /\ RequestRollback(x)
      BY <1>5, <2>2 DEF DeadlockAbort, Actors
    <3> QED
      BY <1>1, <3>1, RequestRollbackKeeps
  <2> QED
    BY <2>1, <2>2
<1> QED
  BY <1>2, <1>3, <1>4, <1>5 DEF Next

\* And so does none.
LEMMA StutterKeeps ==
    ASSUME Ind, UNCHANGED vars
    PROVE  Ind'
<1>1. /\ bal' = bal /\ orders' = orders /\ trades' = trades /\ balLock' = balLock /\ ordLock' = ordLock
      /\ client' = client /\ nextId' = nextId /\ dropped' = dropped /\ edition' = edition
      /\ queue' = queue /\ book' = book /\ hash' = hash /\ seq' = seq /\ worker' = worker
  BY DEF vars, pg, redis
<1>2. Typed'
  BY <1>1 DEF Ind, Typed, TypedPg, TypedRedis, TypedActors
<1>3. Batch' /\ Account' /\ Summed'
  <2>1. worker \in WorkerState /\ Steady
    BY <1>1, <1>2, WorkerPlain, WorkerParts DEF Typed
  <2>2. Batch' /\ Summed'
    BY <1>1, <2>1, BatchKept, SummedKept DEF Ind
  <2>3. Account'
    <3>1. \A r \in Rows : bal'[r].locked \in Nat
      BY <1>2 DEF Typed, TypedPg
    <3> QED
      BY <1>1, <2>1, <3>1, AccountKept DEF Ind
  <2> QED
    BY <2>2, <2>3
<1> QED
  BY <1>1, <1>2, <1>3, WorkerStays

\* What the model of the exchange always is: everything the theorems rest on.
THEOREM ExchangeInvariant == Spec => []Ind
<1>1. Init => Ind
  BY InitInd
<1>2. Ind /\ [Next]_vars => Ind'
  BY NextKeeps, StutterKeeps
<1> QED
  BY <1>1, <1>2, PTL DEF Spec

\* Rows, locks, messages, book entries and what the actors hold keep their
\* types, and no commit of a request or of the worker leaves a negative balance.
THEOREM ExchangeTyped == Spec => []TypeOK
<1>1. ASSUME Ind
      PROVE  TypeOK
  <2>1. TypedPg /\ TypedRedis /\ TypedActors
    BY <1>1 DEF Ind, Typed
  <2>2. \A t \in Range(trades) : t.taker \in Ids /\ t.maker \in Ids /\ t.price \in Nat /\ t.qty \in Nat
    <3> SUFFICES ASSUME NEW i \in DOMAIN trades
                 PROVE  /\ trades[i].taker \in Ids /\ trades[i].maker \in Ids
                        /\ trades[i].price \in Nat /\ trades[i].qty \in Nat
      BY DEF Range
    <3>1. trades[i] \in Trade
      BY <2>1 DEF TypedPg
    <3> QED
      BY <3>1 DEF Trade
  <2>3. \A c \in Clients : client[c].draft \in Order /\ client[c].shift \in Int
    <3> SUFFICES ASSUME NEW c \in Clients
                 PROVE  client[c].draft \in Order /\ client[c].shift \in Int
      OBVIOUS
    <3>1. client[c] \in Request
      BY <2>1 DEF TypedActors
    <3> QED
      BY <3>1 DEF Request
  <2>4. \A m \in Range(queue) : m.kind \in {"place", "cancel", "modify"} /\ m.id \in Ids
    <3> SUFFICES ASSUME NEW i \in DOMAIN queue
                 PROVE  queue[i].kind \in {"place", "cancel", "modify"} /\ queue[i].id \in Ids
      BY DEF Range
    <3>1. queue[i] \in MessageRow
      BY <2>1 DEF TypedRedis
    <3> QED
      BY <3>1 DEF MessageRow
  <2>5. \A e \in book : e.id \in Ids /\ e.seq <= seq
    <3> SUFFICES ASSUME NEW e \in book
                 PROVE  e.id \in Ids /\ e.seq <= seq
      OBVIOUS
    <3>1. e \in BookRow
      BY <2>1 DEF TypedRedis
    <3> QED
      BY <1>1, <3>1 DEF Ind, Once, BookRow
  <2>6. worker.left \in Nat /\ worker.k <= Len(worker.fills)
    <3>1. worker.left \in Nat /\ Len(worker.fills) \in Nat
      BY <1>1, WorkerParts
    <3>2. CASE worker.pc \in SettlePCs \cup {"orders"}
      <4>1. worker.k \in 1 .. Len(worker.fills)
        BY <1>1, <3>2 DEF Ind, Batch
      <4> QED
        BY <3>1, <4>1
    <3>3. CASE worker.pc \notin SettlePCs \cup {"orders"}
      <4>1. worker.k = 0
        BY <1>1, <3>3 DEF Ind, Batch, BatchPCs
      <4> QED
        BY <3>1, <4>1
    <3> QED
      BY <3>1, <3>2, <3>3
  <2> QED
    BY <2>1, <2>2, <2>3, <2>4, <2>5, <2>6 DEF TypeOK, TypedPg, TypedRedis, TypedActors
<1> QED
  BY <1>1, ExchangeInvariant, PTL

\* A committed trade is between a buyer and a seller who both accept its price,
\* and at the maker's: whatever happens to the orders between the match in
\* _handle_place and the commit of persist_trade_batch, and afterwards.
THEOREM TradesHonour == Spec => []TradesHonourLimits
<1>1. ASSUME Ind
      PROVE  TradesHonourLimits
  BY <1>1 DEF Ind, Traded, TradeOk, TradesHonourLimits, Range
<1> QED
  BY <1>1, ExchangeInvariant, PTL

\* Every balance row holds what it started with plus what the committed trades
\* brought and cost its user: requests, aborts, crashes of a request or of the
\* worker and refunds create and destroy nothing.
THEOREM RowsMatchTrades == Spec => []Held
<1>1. Ind => Held
  BY DEF Ind
<1> QED
  BY <1>1, ExchangeInvariant, PTL

\* The same for every user and asset, where every user has both rows
\* (persist_trade_batch skips a balance row that does not exist).
THEOREM HoldingsMatch ==
    ASSUME Users \X {"base", "quote"} \subseteq Rows
    PROVE  Spec => []HoldingsMatchTrades
<1>1. ASSUME Ind
      PROVE  HoldingsMatchTrades
  <2> SUFFICES ASSUME NEW u \in Users, NEW a \in {"base", "quote"}
               PROVE  (IF <<u, a>> \in Rows THEN bal[<<u, a>>].locked + bal[<<u, a>>].available - Start[<<u, a>>] ELSE 0)
                          = NetOfTrades(u, a)
    BY DEF HoldingsMatchTrades
  <2>1. <<u, a>> \in Rows
    OBVIOUS
  <2> QED
    BY <1>1, <2>1 DEF Ind, Held
<1> QED
  BY <1>1, ExchangeInvariant, PTL

-----------------------------------------------------------------------------
(* Exchange implements Settlement.                                         *)

\* The refinement mapping.
TermsNow == [id \in Ids |-> IF orders[id].status = "none" THEN NoOne
                            ELSE [user |-> orders[id].user, side |-> orders[id].side, price |-> orders[id].price]]
FilledNow == [id \in Ids |-> orders[id].filled]
TotalNow == [r \in Rows |-> bal[r].locked + bal[r].available]

\* An order that is entered is not nobody's.
LEMMA TermsOf ==
    ASSUME Ind, NEW id \in Ids
    PROVE  TermsNow[id] = NoOne <=> orders[id].status = "none"
<1>1. CASE orders[id].status = "none"
  BY <1>1 DEF TermsNow
<1>2. CASE orders[id].status # "none"
  <2>1. orders[id] \in Order /\ orders[id].user \in Users
    BY <1>2 DEF Ind, Typed, TypedPg, Committed, OrderOk
  <2>2. [user |-> orders[id].user, side |-> orders[id].side, price |-> orders[id].price]
            \in [user : Users, side : {"buy", "sell"}, price : Nat]
    BY <2>1 DEF Order
  <2>3. TermsNow[id] \in [user : Users, side : {"buy", "sell"}, price : Nat]
    BY <1>2, <2>2 DEF TermsNow
  <2> QED
    BY <1>2, <2>3, ExchangeAssumption
<1> QED
  BY <1>1, <1>2

\* A step that changes no terms, no fill and no total is none to Settlement.
LEMMA QuietStep ==
    ASSUME trades' = trades,
           \A r \in Rows : bal'[r].locked + bal'[r].available = bal[r].locked + bal[r].available,
           \A id \in Ids : /\ orders'[id].status = "none" <=> orders[id].status = "none"
                           /\ orders[id].status # "none" => SameTerms(orders'[id], orders[id])
                           /\ orders'[id].filled = orders[id].filled
    PROVE  UNCHANGED <<TermsNow, FilledNow, TotalNow, trades>>
<1>1. TermsNow' = TermsNow
  BY DEF TermsNow, SameTerms
<1>2. FilledNow' = FilledNow
  BY DEF FilledNow
<1>3. TotalNow' = TotalNow
  BY DEF TotalNow
<1> QED
  BY <1>1, <1>2, <1>3

\* PostgreSQL changes when a request commits, when the worker commits a batch
\* and when it refunds.
LEMMA Commits ==
    ASSUME Next
    PROVE  \/ UNCHANGED pg
           \/ \E c \in Clients : RequestCommit(c)
           \/ WorkerCommit
           \/ WorkerRefund
<1>1. ASSUME NEW c \in Clients, RequestBegins(c)
      PROVE  UNCHANGED pg
  BY <1>1 DEF RequestBegins, PlaceLock, CancelRead, ModifyBegin
<1>2. ASSUME NEW c \in Clients, RequestStep(c), ~RequestCommit(c)
      PROVE  UNCHANGED pg
  BY <1>2 DEF RequestStep, PlaceEnqueue, PlaceHash, CancelLock, CancelUnlock, CancelUpdate, CancelRedis,
              ModifyLock, ModifyRedis
<1>3. ASSUME NEW c \in Clients, RequestDies(c)
      PROVE  UNCHANGED pg
  BY <1>3 DEF RequestDies, RequestRollback
<1>4. ASSUME WorkerFails
      PROVE  UNCHANGED pg
  BY <1>4 DEF WorkerFails
<1>5. ASSUME WorkerStep, ~WorkerCommit, ~WorkerRefund
      PROVE  UNCHANGED pg
  <2>1. CASE WorkerPop \/ WorkerMatch \/ WorkerLockOrder \/ WorkerLockBalance \/ WorkerRestHash \/ WorkerRestAdd
    BY <2>1 DEF WorkerPop, WorkerMatch, WorkerLockOrder, WorkerLockBalance, WorkerRestHash, WorkerRestAdd
  <2>2. CASE WorkerUsers
    BY <1>4, <2>2 DEF WorkerUsers
  <2>3. CASE WorkerFlush
    BY <1>4, <2>3 DEF WorkerFlush
  <2>4. CASE WorkerSettle
    BY <1>4, <2>4 DEF WorkerSettle
  <2> QED
    BY <1>5, <2>1, <2>2, <2>3, <2>4 DEF WorkerStep
<1>6. ASSUME NEW x \in Actors, DeadlockAbort(x)
      PROVE  UNCHANGED pg
  BY <1>4, <1>6 DEF DeadlockAbort, RequestRollback
<1> QED
  BY <1>1, <1>2, <1>3, <1>4, <1>5, <1>6 DEF Next, WorkerDies

\* A request that commits enters its order, if it has one.
LEMMA RequestEnters ==
    ASSUME Ind, NEW c \in Clients, RequestCommit(c)
    PROVE  Trading!Enter \/ UNCHANGED <<TermsNow, FilledNow, TotalNow, trades>>
<1>1. trades' = trades
  BY DEF RequestCommit
<1>2. /\ \A id \in Ids :
             /\ orders[id].status # "none" =>
                    /\ orders'[id].status # "none" /\ SameTerms(orders'[id], orders[id])
                    /\ orders'[id].filled = orders[id].filled
             /\ orders[id].status = "none" =>
                    orders'[id] = orders[id] \/ (id = client[c].new /\ orders'[id] = client[c].draft)
      /\ \A r \in Rows : bal'[r].locked + bal'[r].available = bal[r].locked + bal[r].available
  BY RequestWrites
<1>3. \A id \in Ids : id # 0
  BY ExchangeAssumption DEF Ids
<1>4. CASE client[c].new \notin Ids
  <2>1. \A id \in Ids : /\ orders'[id].status = "none" <=> orders[id].status = "none"
                        /\ orders[id].status # "none" => SameTerms(orders'[id], orders[id])
                        /\ orders'[id].filled = orders[id].filled
    BY <1>2, <1>4
  <2> QED
    BY <1>1, <1>2, <2>1, QuietStep
<1>5. CASE client[c].new \in Ids
  <2>1. PICK new : new = client[c].new
    OBVIOUS
  <2>2. StageOk(c) /\ new \in Ids /\ new # 0
    BY <1>3, <1>5, <2>1 DEF Ind, Requests
  <2>3. orders[new].status = "none" /\ client[c].draft.filled = 0 /\ orders[new].filled = 0
    BY <2>1, <2>2 DEF StageOk, Ind, Committed
  <2>4. TermsNow[new] = NoOne
    BY <2>2, <2>3 DEF TermsNow
  <2>5. ASSUME NEW id \in Ids \ {new}
        PROVE  TermsNow'[id] = TermsNow[id]
    BY <1>2, <2>1 DEF TermsNow, SameTerms
  <2>6. ASSUME NEW id \in Ids
        PROVE  orders'[id].filled = orders[id].filled
    BY <1>2, <2>1, <2>3
  <2>7. FilledNow' = FilledNow
    BY <2>6 DEF FilledNow
  <2>8. TotalNow' = TotalNow
    BY <1>2 DEF TotalNow
  <2>9. /\ \E id \in Ids : /\ TermsNow[id] = NoOne
                           /\ \A other \in Ids \ {id} : TermsNow'[other] = TermsNow[other]
        /\ UNCHANGED <<FilledNow, TotalNow, trades>>
    BY <1>1, <2>2, <2>4, <2>5, <2>7, <2>8
  <2> QED
    BY <2>9 DEF Trading!Enter, TermsNow, FilledNow, TotalNow
<1> QED
  BY <1>4, <1>5

\* The refund moves funds within a row.
LEMMA RefundIsQuiet ==
    ASSUME Ind, WorkerRefund
    PROVE  UNCHANGED <<TermsNow, FilledNow, TotalNow, trades>>
<1>1. PICK row : row = <<worker.msg.user, "quote">>
  OBVIOUS
<1>2. bal' = [bal EXCEPT ![row] = Shift(@, -@.locked)] /\ orders' = orders /\ trades' = trades
  BY <1>1 DEF WorkerRefund
<1>3. ASSUME NEW r \in Rows
      PROVE  bal'[r].locked + bal'[r].available = bal[r].locked + bal[r].available
  <2>1. bal \in [Rows -> [locked : Nat, available : Nat]]
    BY DEF Ind, Typed, TypedPg
  <2>2. bal[r].locked \in Nat /\ bal[r].available \in Nat
    BY <2>1
  <2>3. CASE r = row
    <3>1. bal'[r] = Shift(bal[r], -bal[r].locked)
      BY <1>2, <2>1, <2>3
    <3>2. bal'[r].locked = bal[r].locked + (-bal[r].locked) /\ bal'[r].available = bal[r].available - (-bal[r].locked)
      BY <3>1 DEF Shift
    <3> QED
      BY <2>2, <3>2
  <2>4. CASE r # row
    <3>1. bal'[r] = bal[r]
      BY <1>2, <2>1, <2>4
    <3> QED
      BY <3>1
  <2> QED
    BY <2>3, <2>4
<1>4. \A id \in Ids : /\ orders'[id].status = "none" <=> orders[id].status = "none"
                      /\ orders[id].status # "none" => SameTerms(orders'[id], orders[id])
                      /\ orders'[id].filled = orders[id].filled
  BY <1>2 DEF SameTerms
<1> QED
  BY <1>2, <1>3, <1>4, QuietStep

\* Settlement's operators are ours.
LEMMA SameOperators ==
    /\ \A f : Trading!SumFunction(f) = SumFunction(f)
    /\ \A side : Trading!Opposite(side) = Opposite(side)
    /\ \A side, limit, price : Trading!Crosses(side, limit, price) = Crosses(side, limit, price)
<1>1. ASSUME NEW f
      PROVE  Trading!SumFunction(f) = SumFunction(f)
  BY Zenon DEF SumFunction, SumFunctionOnSet, FoldFunctionOnSet, MapThenFoldSet, Trading!SumFunction,
        Trading!SumFunctionOnSet, Trading!FoldFunctionOnSet, Trading!MapThenFoldSet
<1>2. \A side : Trading!Opposite(side) = Opposite(side)
  BY DEF Opposite, Trading!Opposite
<1>3. ASSUME NEW side, NEW limit, NEW price
      PROVE  Trading!Crosses(side, limit, price) = Crosses(side, limit, price)
  BY DEF Crosses, Trading!Crosses, NoPrice, Trading!NoPrice
<1> QED
  BY <1>1, <1>2, <1>3

\* A sum with one term.
LEMMA SumOne ==
    ASSUME NEW f, NEW S, IsFiniteSet(S), NEW a \in S, f[a] \in Int, \A x \in S \ {a} : f[x] = 0
    PROVE  SumFunctionOnSet(f, S) = f[a]
<1>1. \A x \in S : f[x] \in Int
  OBVIOUS
<1>2. SumFunctionOnSet(f, S) = f[a] + SumFunctionOnSet(f, S \ {a})
  BY <1>1, SumRemove
<1>3. SumFunctionOnSet(f, S \ {a}) = 0
  <2>1. IsFiniteSet(S \ {a})
    BY FS_RemoveElement
  <2> QED
    BY <2>1, SumZero
<1> QED
  BY <1>2, <1>3

\* What an order has traded grows by its trades of the batch.
LEMMA FillsAre ==
    ASSUME Ind, WorkerCommit, NEW b, b = NewTrades, NEW id \in Ids,
           NEW q, q = [i \in DOMAIN b |-> IF id \in {b[i].taker, b[i].maker} THEN b[i].qty ELSE 0]
    PROVE  orders'[id].filled = orders[id].filled + SumFunction(q)
<1>1. worker.pc = "commit" /\ worker.pc \in BatchPCs
  BY DEF WorkerCommit, BatchPCs, SettlePCs
<1>2. PICK n, fs : n = Len(worker.fills) /\ fs = worker.fills
  OBVIOUS
<1>3. /\ n \in Nat /\ n > 1 /\ b \in Seq(Trade) /\ Len(b) = n - 1
      /\ \A i \in 1 .. n - 1 : /\ b[i].taker = worker.msg.id /\ b[i].maker = fs[i].id
                               /\ b[i].qty = fs[i].qty /\ b[i].qty \in Nat
      /\ \A i, j \in 1 .. n - 1 : b[i].maker = b[j].maker => i = j
      /\ \A i \in 1 .. n - 1 : b[i].maker # worker.msg.id
      /\ fs[n].id = worker.msg.id
  <2>1. BatchTrades(b, n)
    BY ONLY Ind, b = NewTrades, <1>1, <1>2, NewTradesAre
  <2> QED
    BY ONLY <1>2, <2>1 DEF BatchTrades
<1>4. DOMAIN b = 1 .. n - 1 /\ IsFiniteSet(1 .. n - 1) /\ n \in 1 .. n
  <2>1. IsFiniteSet(1 .. n - 1)
    BY <1>3, FS_Interval
  <2> QED
    BY <1>3, <2>1
<1>5. SumFunction(q) = SumFunctionOnSet(q, 1 .. n - 1)
  BY <1>4 DEF SumFunction
<1>6. \A i \in 1 .. n - 1 : q[i] = IF id \in {b[i].taker, b[i].maker} THEN b[i].qty ELSE 0
  BY <1>4
<1>7. \A i \in 1 .. n : fs[i].id = id => orders'[id].filled = orders[id].filled + fs[i].qty
  BY <1>2, CommitOrders
<1>8. (\A i \in 1 .. n : fs[i].id # id) => orders'[id] = orders[id]
  BY <1>2, CommitOrders
<1>9. orders[id].filled \in Nat
  <2>1. orders[id] \in Order
    BY DEF Ind, Typed, TypedPg
  <2> QED
    BY <2>1 DEF Order
<1>10. CASE id = worker.msg.id
  <2>1. orders'[id].filled = orders[id].filled + fs[n].qty
    BY <1>3, <1>4, <1>7, <1>10
  <2>2. BatchOk(worker)
    BY <1>1 DEF Ind, Batch
  <2>3. fs[n].qty = SumFunctionOnSet([i \in 1 .. n - 1 |-> fs[i].qty], 1 .. n - 1)
    BY <1>2, <2>2 DEF BatchOk
  <2>4. SumFunctionOnSet(q, 1 .. n - 1) = SumFunctionOnSet([i \in 1 .. n - 1 |-> fs[i].qty], 1 .. n - 1)
    <3> DEFINE f == [i \in 1 .. n - 1 |-> fs[i].qty]
    <3>1. \A i \in 1 .. n - 1 : q[i] = f[i]
      BY <1>3, <1>6, <1>10
    <3> HIDE DEF f
    <3>2. SumFunctionOnSet(q, 1 .. n - 1) = SumFunctionOnSet(f, 1 .. n - 1)
      BY <1>4, <3>1, SumSame
    <3> QED
      BY <3>2 DEF f
  <2> QED
    BY <1>5, <2>1, <2>3, <2>4
<1>11. ASSUME id # worker.msg.id, NEW j \in 1 .. n - 1, fs[j].id = id
       PROVE  orders'[id].filled = orders[id].filled + SumFunction(q)
  <2>1. j \in 1 .. n
    BY <1>3
  <2>2. orders'[id].filled = orders[id].filled + fs[j].qty
    BY <1>7, <1>11, <2>1
  <2>3. q[j] = fs[j].qty /\ q[j] \in Int
    BY <1>3, <1>6, <1>11
  <2>4. \A i \in (1 .. n - 1) \ {j} : q[i] = 0
    BY <1>3, <1>6, <1>11
  <2>5. SumFunctionOnSet(q, 1 .. n - 1) = q[j]
    BY <1>4, <2>3, <2>4, SumOne
  <2> QED
    BY <1>5, <2>2, <2>3, <2>5
<1>12. CASE id # worker.msg.id /\ \A j \in 1 .. n - 1 : fs[j].id # id
  <2>1. \A i \in 1 .. n : fs[i].id # id
    <3>1. \A i \in 1 .. n : i \in 1 .. n - 1 \/ i = n
      BY <1>3
    <3> QED
      BY <1>3, <1>12, <3>1
  <2>2. orders'[id].filled = orders[id].filled
    BY <1>8, <2>1
  <2>3. \A i \in 1 .. n - 1 : q[i] = 0
    BY <1>3, <1>6, <1>12
  <2>4. SumFunctionOnSet(q, 1 .. n - 1) = 0
    BY <1>4, <2>3, SumZero
  <2> QED
    BY <1>5, <1>9, <2>2, <2>4
<1> QED
  BY <1>10, <1>11, <1>12

\* What a trade brings a party's account, as Settlement says it.
LEMMA MovesAre ==
    ASSUME Ind, NEW t \in Trade, NEW id \in Ids, orders[id].status # "none", NEW r, r \in Users \X {"base", "quote"}
    PROVE  Trading!Moves(t, id, r) = Sign(orders[id], r[1], r[2]) * Amount(t, r[2])
<1>1. PICK u, a : u = r[1] /\ a = r[2]
  OBVIOUS
<1>2. a \in {"base", "quote"}
  BY <1>1
<1> DEFINE x == Amount(t, a)
<1>3. x \in Nat
  BY DEF Trade, Amount
<1>4. TermsNow[id].user = orders[id].user /\ TermsNow[id].side = orders[id].side
  BY DEF TermsNow
<1>5. Trading!Moves(t, id, r) =
          IF TermsNow[id].user # u THEN 0
          ELSE IF a = IF TermsNow[id].side = "buy" THEN "base" ELSE "quote" THEN x ELSE -x
  BY <1>1 DEF Trading!Moves, Trading!Receives, TermsNow, Amount
<1>6. Sign(orders[id], u, a) = IF TermsNow[id].user # u THEN 0
                               ELSE IF a = IF TermsNow[id].side = "buy" THEN "base" ELSE "quote" THEN 1 ELSE -1
  BY <1>4 DEF Sign, GetAsset
<1> HIDE DEF x
<1>7. Trading!Moves(t, id, r) = Sign(orders[id], u, a) * x
  BY <1>3, <1>5, <1>6
<1> QED
  BY <1>1, <1>7 DEF x

\* The commit of a batch is a settlement of the whole match.
LEMMA CommitSettles ==
    ASSUME Ind, WorkerCommit
    PROVE  Trading!Settle
<1>1. worker.pc = "commit"
  BY DEF WorkerCommit
<1> DEFINE b == SubSeq(trades', Len(trades) + 1, Len(trades'))
<1>5. b = NewTrades /\ SubSeq(trades', 1, Len(trades)) = trades
  <2>1. PICK c : c = NewTrades
    OBVIOUS
  <2>2. /\ trades' = trades \o c /\ Len(trades') = Len(trades) + Len(c) /\ trades \in Seq(Trade) /\ c \in Seq(Trade)
    BY <2>1, CommitTrades
  <2>3. /\ SubSeq(trades \o c, Len(trades) + 1, Len(trades) + Len(c)) = c
        /\ SubSeq(trades \o c, 1, Len(trades)) = trades
    BY <2>2, ConcatSimplifications
  <2> QED
    BY <2>1, <2>2, <2>3
<1> HIDE DEF b
<1>2. PICK n : n = Len(worker.fills) /\ b = NewTrades
  BY <1>5
<1>3. /\ n \in Nat /\ n > 1 /\ b \in Seq(Trade) /\ Len(b) = n - 1
      /\ \A i \in 1 .. n - 1 : /\ b[i] \in Trade /\ b[i].taker = worker.msg.id /\ b[i].taker \in Ids
                               /\ b[i].maker \in Ids /\ b[i].qty > 0 /\ TradeOk(b[i])
      /\ \A i, j \in 1 .. n - 1 : b[i].maker = b[j].maker => i = j
  <2>1. PICK c : c = b
    OBVIOUS
  <2>2. BatchTrades(c, n)
    BY ONLY Ind, <1>1, <1>2, <2>1, NewTradesAre
  <2> QED
    BY ONLY <2>1, <2>2 DEF BatchTrades
<1>4. Len(trades') = Len(trades) + Len(b) /\ Len(trades) \in Nat
  BY <1>2, CommitTrades
<1>7. Len(trades') > Len(trades) /\ DOMAIN b = 1 .. n - 1
  BY <1>3, <1>4
<1>8. \A i, j \in DOMAIN b : b[i].taker = b[j].taker /\ (i # j => b[i].maker # b[j].maker)
  BY <1>3, <1>7
<1>9. ASSUME NEW i \in DOMAIN b
      PROVE  Trading!Honest(b[i])
  <2>1. PICK t : t = b[i]
    OBVIOUS
  <2>2. t.taker \in Ids /\ t.maker \in Ids /\ t.qty > 0 /\ TradeOk(t)
    BY <1>3, <1>7, <2>1
  <2>3. orders[t.taker].status # "none" /\ orders[t.maker].status # "none"
    BY <2>2 DEF TradeOk
  <2>4. TermsNow[t.taker] # NoOne /\ TermsNow[t.maker] # NoOne
    BY <2>2, <2>3, TermsOf
  <2>5. /\ TermsNow[t.taker].side = orders[t.taker].side /\ TermsNow[t.taker].price = orders[t.taker].price
        /\ TermsNow[t.maker].side = orders[t.maker].side /\ TermsNow[t.maker].price = orders[t.maker].price
    BY <2>2, <2>3 DEF TermsNow
  <2>6. /\ TermsNow[t.taker] # NoOne /\ TermsNow[t.maker] # NoOne
        /\ TermsNow[t.taker].side = Opposite(TermsNow[t.maker].side)
        /\ t.price = TermsNow[t.maker].price /\ t.qty > 0
        /\ Crosses(TermsNow[t.taker].side, TermsNow[t.taker].price, t.price)
    BY <2>2, <2>4, <2>5 DEF TradeOk
  <2>7. Trading!Honest(t)
    <3>1. /\ TermsNow[t.taker] # NoOne /\ TermsNow[t.maker] # NoOne
          /\ TermsNow[t.taker].side = Trading!Opposite(TermsNow[t.maker].side)
          /\ t.price = TermsNow[t.maker].price /\ t.qty > 0
          /\ Trading!Crosses(TermsNow[t.taker].side, TermsNow[t.taker].price, t.price)
      BY <2>6, SameOperators
    <3> QED
      BY <3>1 DEF Trading!Honest, TermsNow
  <2> QED
    BY <2>1, <2>7
<1>10. FilledNow' = [id \in Ids |-> FilledNow[id] + SumFunction([i \in DOMAIN b |->
                        IF id \in {b[i].taker, b[i].maker} THEN b[i].qty ELSE 0])]
  <2>1. ASSUME NEW id \in Ids
        PROVE  orders'[id].filled = orders[id].filled + SumFunction([i \in DOMAIN b |->
                   IF id \in {b[i].taker, b[i].maker} THEN b[i].qty ELSE 0])
    BY <1>2, FillsAre
  <2> QED
    BY <2>1 DEF FilledNow
<1>11. TotalNow' = [r \in Rows |-> TotalNow[r] + SumFunction([i \in DOMAIN b |->
                       Trading!Moves(b[i], b[i].taker, r) + Trading!Moves(b[i], b[i].maker, r)])]
  <2>1. ASSUME NEW r \in Rows
        PROVE  bal'[r].locked + bal'[r].available = (bal[r].locked + bal[r].available) + SumFunction([i \in DOMAIN b |->
                   Trading!Moves(b[i], b[i].taker, r) + Trading!Moves(b[i], b[i].maker, r)])
    <3>1. r \in Users \X {"base", "quote"}
      BY ExchangeAssumption DEF Rows
    <3>2. PICK u, a : u = r[1] /\ a = r[2] /\ r = <<u, a>> /\ a \in {"base", "quote"}
      BY <3>1
    <3>3. PICK g : g = [i \in 1 .. Len(b) |-> Brings(b[i], u, a)]
      OBVIOUS
    <3>4. worker.acc[r].locked + worker.acc[r].available = SumFunctionOnSet(g, 1 .. Len(b))
      <4>1. <<u, a>> \in Rows
        BY <3>2
      <4>2. worker.acc[<<u, a>>].locked + worker.acc[<<u, a>>].available = SumFunctionOnSet(g, 1 .. Len(b))
        <5>1. PICK c : c = b
          OBVIOUS
        <5>2. c = NewTrades /\ g = BatchBrings(c, u, a) /\ a \in {"base", "quote"}
          BY <1>2, <3>2, <3>3, <5>1 DEF BatchBrings
        <5>3. r = <<u, a>> /\ r \in Rows
          BY <3>2
        <5>4. RowMovesBy(r, c, g)
          BY ONLY Ind, <1>1, <5>2, <5>3, BatchMoves
        <5> QED
          BY ONLY <5>1, <5>3, <5>4 DEF RowMovesBy
      <4> QED
        BY <3>2, <4>2
    <3>5. PICK m : m = [i \in DOMAIN b |-> Trading!Moves(b[i], b[i].taker, r) + Trading!Moves(b[i], b[i].maker, r)]
      OBVIOUS
    <3>6. ASSUME NEW i \in 1 .. n - 1
          PROVE  m[i] = g[i]
      <4>1. PICK t \in Trade : t = b[i]
        BY <1>3
      <4>2. t.taker \in Ids /\ t.maker \in Ids /\ TradeOk(t)
        BY <1>3, <4>1
      <4>3. orders[t.taker].status # "none" /\ orders[t.maker].status # "none"
        BY <4>2 DEF TradeOk
      <4>4. /\ Trading!Moves(t, t.taker, r) = Sign(orders[t.taker], r[1], r[2]) * Amount(t, r[2])
            /\ Trading!Moves(t, t.maker, r) = Sign(orders[t.maker], r[1], r[2]) * Amount(t, r[2])
        BY <3>1, <4>2, <4>3, MovesAre
      <4>5. m[i] = Sign(orders[t.taker], u, a) * Amount(t, a) + Sign(orders[t.maker], u, a) * Amount(t, a)
        BY <1>7, <3>2, <3>5, <4>1, <4>4
      <4>6. g[i] = (Sign(orders[t.taker], u, a) + Sign(orders[t.maker], u, a)) * Amount(t, a)
        BY <1>3, <3>3, <4>1 DEF Brings
      <4>7. PICK p, q, x : p = Sign(orders[t.taker], u, a) /\ q = Sign(orders[t.maker], u, a) /\ x = Amount(t, a)
        OBVIOUS
      <4>8. p \in {-1, 0, 1} /\ q \in {-1, 0, 1} /\ x \in Nat
        BY <4>7 DEF Sign, Amount, Trade
      <4>9. (p + q) * x = p * x + q * x
        BY <4>8
      <4> QED
        BY <4>5, <4>6, <4>7, <4>9
    <3>7. m = g
      BY <1>3, <1>7, <3>3, <3>5, <3>6
    <3>8. SumFunction(m) = SumFunctionOnSet(g, 1 .. Len(b))
      BY <3>3, <3>7 DEF SumFunction
    <3>9. bal'[r].locked + bal'[r].available =
              (bal[r].locked + bal[r].available) + (worker.acc[r].locked + worker.acc[r].available)
      BY CommitBalances
    <3> QED
      BY <3>4, <3>5, <3>8, <3>9
  <2> QED
    BY <2>1 DEF TotalNow
<1>12. TermsNow' = TermsNow
  <2>1. \A id \in Ids : /\ SameTerms(orders'[id], orders[id])
                        /\ orders'[id].status = "none" <=> orders[id].status = "none"
    BY CommitOrders
  <2> QED
    BY <2>1 DEF TermsNow, SameTerms
<1>13. FilledNow' = [id \in Ids |-> FilledNow[id] + Trading!SumFunction([i \in DOMAIN b |->
                        IF id \in {b[i].taker, b[i].maker} THEN b[i].qty ELSE 0])]
  BY <1>10, SameOperators
<1>14. TotalNow' = [r \in Rows |-> TotalNow[r] + Trading!SumFunction([i \in DOMAIN b |->
                       Trading!Moves(b[i], b[i].taker, r) + Trading!Moves(b[i], b[i].maker, r)])]
  BY <1>11, SameOperators
<1> QED
  BY <1>5, <1>7, <1>8, <1>9, <1>12, <1>13, <1>14 DEF b, Trading!Settle, TermsNow, FilledNow, TotalNow

\* Every commit of a request or of persist_trade_batch, and every failure, is
\* an order entered, a whole match settled, or nothing at all, as Settlement
\* says: for any orders, users and faults, in both editions.
THEOREM RefinesSettlement == Spec => ImplementsSettlement
<1>1. ASSUME Init
      PROVE  Trading!Begin
  <2>1. /\ orders = [id \in Ids |-> NoOrder] /\ trades = <<>>
        /\ bal = [r \in Rows |-> [locked |-> 0, available |-> Start[r]]]
    BY <1>1 DEF Init
  <2>2. TermsNow = [id \in Ids |-> NoOne] /\ FilledNow = [id \in Ids |-> 0]
    BY <2>1 DEF TermsNow, FilledNow, NoOrder
  <2>3. TotalNow = Start
    <3>1. Start \in [Rows -> Nat]
      BY ExchangeAssumption DEF Rows
    <3>2. \A r \in Rows : TotalNow[r] = Start[r]
      BY <2>1, <3>1 DEF TotalNow
    <3>3. TotalNow = [r \in Rows |-> TotalNow[r]] /\ Start = [r \in Rows |-> Start[r]]
      BY <3>1 DEF TotalNow
    <3> QED
      BY <3>2, <3>3
  <2> QED
    BY <2>1, <2>2, <2>3 DEF Trading!Begin, TermsNow, FilledNow, TotalNow
<1>2. ASSUME Ind, Next
      PROVE  Trading!Enter \/ Trading!Settle \/ UNCHANGED <<TermsNow, FilledNow, TotalNow, trades>>
  <2>1. CASE UNCHANGED pg
    <3>1. bal' = bal /\ orders' = orders /\ trades' = trades
      BY <2>1 DEF pg
    <3> QED
      BY <3>1 DEF TermsNow, FilledNow, TotalNow
  <2> QED
    BY <1>2, <2>1, Commits, RequestEnters, CommitSettles, RefundIsQuiet
<1>3. ASSUME UNCHANGED vars
      PROVE  UNCHANGED <<TermsNow, FilledNow, TotalNow, trades>>
  <2>1. bal' = bal /\ orders' = orders /\ trades' = trades
    BY <1>3 DEF vars, pg
  <2> QED
    BY <2>1 DEF TermsNow, FilledNow, TotalNow
<1>4. Ind /\ [Next]_vars => [Trading!Enter \/ Trading!Settle]_<<TermsNow, FilledNow, TotalNow, trades>>
  BY <1>2, <1>3
<1> QED
  BY <1>1, <1>4, ExchangeInvariant, PTL DEF Spec, ImplementsSettlement, Trading!Spec, TermsNow, FilledNow, TotalNow
=============================================================================
