-------------------------- MODULE OrderBookProofs --------------------------
(***************************************************************************)
(* Proofs about OrderBook, for any orders, readers and cancelers, any tick, *)
(* multiplier and precision.  The argument: the score of a member is the   *)
(* packing of its limit and of its own turn, whenever it is read; members   *)
(* that no cancel or clear met half-added have different turns; and a      *)
(* member lost its HASH, or was canceled, only if it is one that a cancel  *)
(* or a clear met.  A read holds these facts about what it listed, and     *)
(* later writes leave them true.  A snapshot of a book nobody writes to is *)
(* followed read by read: each range is what it was when it was asked for, *)
(* and the levels add up what its HASHes show.                             *)
(***************************************************************************)
EXTENDS OrderBook, FiniteLemmas, FiniteSetTheorems, TLAPS

Sides == {"buy", "sell"}
Members == [id : Ids, side : Sides, score : Nat]
Fields == [qty : Nat, visible : Nat]
ReadStages == {"idle", "asks", "hashes", "asks_hashes", "done"}

-----------------------------------------------------------------------------
(* The inductive invariant.                                                *)

\* Every variable but the reads has its type, and the set is finite.
Typed ==
    /\ terms \in [Ids -> Menu]
    /\ zset \subseteq Members /\ IsFiniteSet(zset)
    /\ hash \in [Ids -> Fields \cup {NoHash}]
    /\ counter \in Nat /\ turn \in [Ids -> Nat]
    /\ adder \in [pc : {"idle", "number", "add"}, id : Nat, seq : 0 .. Multiplier - 1]
    /\ adder.pc # "idle" => adder.id \in Ids
    /\ canceler \in [Cancelers -> [pc : {"idle", "delete"}, id : Nat]]
    /\ \A c \in Cancelers : canceler[c].pc = "delete" => canceler[c].id \in Ids
    /\ cleaner \in [pc : {"not_yet", "delete", "done"}, ids : SUBSET Ids]
    /\ gone \subseteq Ids /\ raced \subseteq Ids

\* A member carries its order's side, and its limit and turn in the score.
Packed(e) ==
    /\ turn[e.id] > 0 /\ e.side = terms[e.id].side
    /\ e.score = encode_score(terms[e.id].price, next_seq(turn[e.id]))

Scored ==
    /\ \A e \in zset : Packed(e)
    /\ adder.pc = "number" => turn[adder.id] = 0
    /\ adder.pc = "add" => turn[adder.id] > 0 /\ adder.seq = next_seq(turn[adder.id])

\* Orders nothing met half-added have turns of their own, up to the counter.
Distinct ==
    /\ \A e \in zset : e.id \notin raced => turn[e.id] <= counter
    /\ \A e, f \in zset : e.id \notin raced /\ f.id \notin raced /\ turn[e.id] = turn[f.id] => e.id = f.id
    /\ adder.pc = "add" /\ adder.id \notin raced =>
          /\ turn[adder.id] <= counter
          /\ \A e \in zset : e.id \notin raced /\ turn[e.id] = turn[adder.id] => e.id = adder.id

\* Met by a cancel: the cancel is about to delete the HASH, or has.
Met(id) == id \in gone \/ \E c \in Cancelers : canceler[c].pc = "delete" /\ canceler[c].id = id

\* What is in the book, or about to be, has a HASH and no cancel, or is raced.
Hashed ==
    /\ \A e \in zset : hash[e.id] = NoHash \/ Met(e.id) => e.id \in raced
    /\ adder.pc # "idle" /\ (hash[adder.id] = NoHash \/ Met(adder.id)) => adder.id \in raced

\* The raw members of a match read, best first.
RawOk(q) ==
    /\ \A i \in DOMAIN q.raw : q.raw[i] \in Members /\ Packed(q.raw[i])
    /\ \A i, j \in DOMAIN q.raw : i < j =>
          /\ Before(q.side, q.raw[i], q.raw[j])
          /\ q.raw[i].id \notin raced /\ q.raw[j].id \notin raced => turn[q.raw[i].id] # turn[q.raw[j].id]

\* What the engine gets are members of the raw list, in its order.
ListOk(q) ==
    \A i \in DOMAIN q.list : /\ i \in DOMAIN q.raw
                             /\ q.list[i].id = q.raw[i].id
                             /\ q.list[i].price = decode_score(q.raw[i].score).price

ReadOk(q) ==
    q.kind = "match" => /\ q.pc \in {"hashes", "done"} => RawOk(q)
                        /\ q.pc = "done" => ListOk(q)

\* The fields of a read.
IsRead(q) ==
    /\ {"pc", "kind", "side", "raw", "list", "other", "clean"} \subseteq DOMAIN q
    /\ q.pc \in ReadStages /\ q.side \in Sides
    /\ DOMAIN q.raw \subseteq Nat
    /\ q.kind = "match" /\ q.pc # "idle" => q.pc \in {"hashes", "done"}

Reads ==
    /\ reader = [r \in Readers |-> reader[r]]
    /\ \A r \in Readers : IsRead(reader[r]) /\ ReadOk(reader[r])

Ind == Typed /\ Scored /\ Distinct /\ Hashed /\ Reads

-----------------------------------------------------------------------------
(* Scores.                                                                 *)

\* Quotient and remainder.
LEMMA Division ==
    ASSUME NEW n \in Nat, NEW u \in Nat \ {0}
    PROVE  /\ n \div u \in Nat /\ n % u \in 0 .. u - 1
           /\ n = u * (n \div u) + (n % u)
<1>1. n % u \in 0 .. u - 1
  OBVIOUS
<1>2. n = u * (n \div u) + (n % u)
  OBVIOUS
<1>3. n \div u \in Int
  OBVIOUS
<1>4. n \div u >= 0
  BY <1>1, <1>2, <1>3
<1> QED
  BY <1>1, <1>2, <1>3, <1>4

\* round and the double nearest to a number are numbers, at most half a unit off.
LEMMA HalfEvenClose ==
    ASSUME NEW n \in Nat, NEW u \in Nat \ {0}
    PROVE  /\ HalfEven(n, u) \in Nat
           /\ -u <= 2 * (HalfEven(n, u) * u - n)
           /\ 2 * (HalfEven(n, u) * u - n) <= u
<1> DEFINE q == n \div u
           r == n % u
<1>1. q \in Nat /\ r \in 0 .. u - 1 /\ n = u * q + r
  BY Division
<1>2. HalfEven(n, u) = IF 2 * r < u \/ (2 * r = u /\ q % 2 = 0) THEN q ELSE q + 1
  BY DEF HalfEven
<1>3. u * q \in Nat /\ q * u = u * q /\ (q + 1) * u = u * q + u
  BY <1>1
<1> HIDE DEF q, r
<1>4. CASE HalfEven(n, u) = q /\ 2 * r <= u
  <2> DEFINE m == u * q
  <2>1. m \in Nat /\ n = m + r /\ HalfEven(n, u) * u = m
    BY <1>1, <1>3, <1>4
  <2> HIDE DEF m
  <2> QED
    BY <1>1, <1>4, <2>1
<1>5. CASE HalfEven(n, u) = q + 1 /\ 2 * r >= u
  <2> DEFINE m == u * q
  <2>1. m \in Nat /\ n = m + r /\ HalfEven(n, u) * u = m + u
    BY <1>1, <1>3, <1>5
  <2> HIDE DEF m
  <2> QED
    BY <1>1, <1>5, <2>1
<1> QED
  BY <1>1, <1>2, <1>4, <1>5

\* An integer that a double holds exactly stays what it is.
LEMMA DoubleExact ==
    ASSUME NEW n \in Nat
    PROVE  /\ ToDouble(n) \in Nat
           /\ n < Exact => ToDouble(n) = n
<1>1. Exact \in Nat \ {0}
  BY OrderBookAssumption
<1>2. Spacing(n) \in Nat \ {0}
  BY <1>1 DEF Spacing
<1>3. ToDouble(n) \in Nat
  <2> DEFINE u == Spacing(n)
             h == HalfEven(n, u)
  <2>1. ToDouble(n) = u * h /\ u \in Nat
    BY <1>2 DEF ToDouble
  <2>2. h \in Nat
    BY <1>2, HalfEvenClose
  <2> HIDE DEF u, h
  <2> QED
    BY <2>1, <2>2
<1>4. ASSUME n < Exact
      PROVE  ToDouble(n) = n
  <2>1. Spacing(n) = 1
    BY <1>4 DEF Spacing
  <2>2. n \div 1 = n /\ n % 1 = 0
    BY Division
  <2>3. HalfEven(n, 1) = n
    BY <2>2 DEF HalfEven
  <2> QED
    BY <2>1, <2>3 DEF ToDouble
<1> QED
  BY <1>3, <1>4

\* Sequence numbers.
LEMMA SeqInRange ==
    ASSUME NEW n \in Nat
    PROVE  next_seq(n) \in 0 .. Multiplier - 1
BY Division, OrderBookAssumption DEF next_seq

LEMMA ScoreType ==
    ASSUME NEW p \in Nat, NEW s \in 0 .. Multiplier - 1
    PROVE  /\ PriceInt(p) \in Nat
           /\ encode_score(p, s) \in Nat
<1>1. PriceInt(p) \in Nat /\ Multiplier \in Nat
  BY HalfEvenClose, OrderBookAssumption DEF PriceInt
<1>2. PriceInt(p) * Multiplier + s \in Nat
  BY <1>1
<1> QED
  BY <1>1, <1>2, DoubleExact DEF encode_score

\* Where the packing is exact it can be undone.
LEMMA ScoreExact ==
    ASSUME NEW p \in Nat, NEW s \in 0 .. Multiplier - 1,
           PriceInt(p) * Multiplier + Multiplier <= Exact
    PROVE  /\ PriceInt(p) \in Nat
           /\ encode_score(p, s) = PriceInt(p) * Multiplier + s
           /\ decode_score(encode_score(p, s)).price = PriceInt(p)
<1>1. PriceInt(p) \in Nat /\ Multiplier \in Nat \ {0} /\ Exact \in Nat
  BY ScoreType, OrderBookAssumption
<1> DEFINE k == PriceInt(p)
<1> HIDE DEF k
<1>2. k * Multiplier \in Nat /\ k \in Nat
  BY <1>1 DEF k
<1>3. k * Multiplier + s < Exact /\ k * Multiplier + s \in Nat
  <2> DEFINE m == k * Multiplier
  <2>1. m \in Nat /\ m + Multiplier <= Exact
    BY <1>2 DEF k
  <2> HIDE DEF m
  <2>2. m + s < Exact /\ m + s \in Nat
    BY <1>1, <2>1
  <2> QED
    BY <2>2 DEF m
<1>4. encode_score(p, s) = k * Multiplier + s
  BY <1>3, DoubleExact DEF encode_score, k
<1>5. (k * Multiplier + s) \div Multiplier = k
  BY <1>1, <1>2
<1> QED
  BY <1>1, <1>4, <1>5 DEF decode_score, k

\* Of two exact scores the smaller one has the lower price, or the same one and
\* the smaller number.
LEMMA ScoreOrder ==
    ASSUME NEW p \in Nat, NEW q \in Nat, NEW m \in Nat \ {0}, NEW s \in 0 .. m - 1, NEW t \in 0 .. m - 1,
           p * m + s <= q * m + t
    PROVE  p < q \/ (p = q /\ s <= t)
<1>1. CASE p > q
  <2>1. PICK d \in Nat : p = q + 1 + d
    <3>1. p - q - 1 \in Nat /\ p = q + 1 + (p - q - 1)
      BY <1>1
    <3> QED
      BY <3>1
  <2>2. p * m = q * m + m + d * m /\ d * m \in Nat
    BY <2>1
  <2> DEFINE a == q * m
             b == d * m
  <2>3. a \in Nat /\ b \in Nat /\ a + m + b + s <= a + t
    BY <2>2
  <2> HIDE DEF a, b
  <2> QED
    BY <2>3
<1>2. CASE p = q
  <2> DEFINE a == q * m
  <2>1. a \in Nat /\ a + s <= a + t
    BY <1>2
  <2> HIDE DEF a
  <2> QED
    BY <1>2, <2>1
<1> QED
  BY <1>1, <1>2

-----------------------------------------------------------------------------
(* A range of the book.                                                    *)

\* Members have one entry each.
LEMMA OneEntry ==
    ASSUME Typed, Scored, NEW e \in zset, NEW f \in zset, e.id = f.id
    PROVE  e = f
<1>1. e \in Members /\ f \in Members
  BY DEF Typed
<1>2. e.side = f.side /\ e.score = f.score
  BY DEF Scored, Packed
<1> QED
  BY <1>1, <1>2 DEF Members

\* ZRANGE and ZREVRANGE list the side in its order.
LEMMA RankedLists ==
    ASSUME Typed, Scored, NEW side \in Sides
    PROVE  /\ Ranked(side) \in [1 .. Cardinality(side_key(side)) -> side_key(side)]
           /\ Cardinality(side_key(side)) \in Nat
           /\ \A i, j \in DOMAIN Ranked(side) : i < j => Before(side, Ranked(side)[i], Ranked(side)[j])
<1> DEFINE S == side_key(side)
           R == {p \in S \X S : Before(side, p[1], p[2])}
<1>1. S \subseteq zset
  BY DEF side_key
<1>2. IsFiniteSet(S) /\ Cardinality(S) \in Nat
  BY <1>1, FS_Subset, FS_CardinalityType DEF Typed
<1>3. \A a, b \in S : <<a, b>> \in R <=> Before(side, a, b)
  OBVIOUS
<1>4. ASSUME NEW a \in S
      PROVE  a.id \in Nat /\ a.score \in Nat
  <2>1. a \in Members
    BY <1>1 DEF Typed
  <2> QED
    BY <2>1, OrderBookAssumption DEF Members
<1>5. \A a, b \in S : a.id = b.id => a = b
  BY <1>1, OneEntry
<1> HIDE DEF S, R
<1>6. \A a, b \in S : a # b => Before(side, a, b) \/ Before(side, b, a)
  BY <1>4, <1>5 DEF Before, Below
<1>7. ASSUME NEW a \in S, NEW b \in S, NEW c \in S, Before(side, a, b), Before(side, b, c)
      PROVE  Before(side, a, c)
  BY <1>4, <1>7 DEF Before, Below
<1>8. StrictOrder(R, S)
  BY <1>3, <1>6, <1>7 DEF StrictOrder
<1>9. PICK s \in [1 .. Cardinality(S) -> S] : InOrder(s, R)
  BY <1>2, <1>8, CanBeListed
<1>10. \A i, j \in DOMAIN s : i < j => Before(side, s[i], s[j])
  BY <1>3, <1>9 DEF InOrder
<1> QED
  BY <1>2, <1>9, <1>10 DEF Ranked, S

LEMMA BestOfLists ==
    ASSUME Typed, Scored, NEW side \in Sides
    PROVE  LET best == BestOf(side, Depth)
           IN  /\ DOMAIN best \subseteq Nat
               /\ \A i \in DOMAIN best : best[i] \in zset
               /\ \A i, j \in DOMAIN best : i < j => Before(side, best[i], best[j])
<1>1. side_key(side) \subseteq zset
  BY DEF side_key
<1> QED
  BY <1>1, RankedLists DEF BestOf

\* What a match read lists.
LEMMA RangeOk ==
    ASSUME Typed, Scored, Distinct, NEW side \in Sides, NEW q, q.side = side, q.raw = BestOf(side, Depth)
    PROVE  RawOk(q)
<1> DEFINE best == BestOf(side, Depth)
<1>1. /\ DOMAIN best \subseteq Nat
      /\ \A i \in DOMAIN best : best[i] \in zset
      /\ \A i, j \in DOMAIN best : i < j => Before(side, best[i], best[j])
  BY BestOfLists
<1> HIDE DEF best
<1>2. \A i \in DOMAIN best : best[i] \in Members /\ Packed(best[i])
  BY <1>1 DEF Typed, Scored
<1>3. ASSUME NEW i \in DOMAIN best, NEW j \in DOMAIN best, i < j,
             best[i].id \notin raced, best[j].id \notin raced, turn[best[i].id] = turn[best[j].id]
      PROVE  FALSE
  <2> DEFINE a == best[i]
             b == best[j]
  <2>1. a \in zset /\ b \in zset /\ Before(side, a, b)
    BY <1>1, <1>3
  <2>2. a = b
    BY <1>3, <2>1, OneEntry DEF Distinct
  <2>3. a.id \in Nat /\ a.score \in Nat
    BY <2>1, OrderBookAssumption DEF Typed, Members
  <2> HIDE DEF a, b
  <2> QED
    BY <2>1, <2>2, <2>3 DEF Before, Below
<1> QED
  BY <1>1, <1>2, <1>3 DEF RawOk, best

-----------------------------------------------------------------------------
(* Reads while others write.                                               *)

\* A turn, once taken, stays; what was met stays met.
Onward ==
    /\ terms' = terms /\ raced \subseteq raced'
    /\ \A id \in Ids : turn[id] > 0 => turn'[id] = turn[id]

\* A read that goes on, or only lost its claim to be undisturbed.
SameRead(q, p) ==
    p.pc = q.pc /\ p.kind = q.kind /\ p.side = q.side /\ p.raw = q.raw /\ p.list = q.list

LEMMA ReadLasts ==
    ASSUME Typed, Onward, NEW r \in Readers, ReadOk(reader[r]), SameRead(reader[r], reader'[r])
    PROVE  ReadOk(reader[r])'
<1> DEFINE q == reader[r]
           raw == reader[r].raw
<1>1. reader'[r].raw = raw /\ reader'[r].side = q.side
  BY DEF SameRead
<1>2. ASSUME RawOk(q)
      PROVE  RawOk(q)'
  <2>1. \A i \in DOMAIN raw : raw[i] \in Members /\ Packed(raw[i])
    BY <1>2 DEF RawOk
  <2>2. \A i, j \in DOMAIN raw : i < j =>
          /\ Before(q.side, raw[i], raw[j])
          /\ raw[i].id \notin raced /\ raw[j].id \notin raced => turn[raw[i].id] # turn[raw[j].id]
    BY <1>2 DEF RawOk
  <2>3. \A i \in DOMAIN raw : raw[i].id \in Ids /\ turn'[raw[i].id] = turn[raw[i].id]
    BY <2>1 DEF Packed, Onward, Members
  <2> HIDE DEF raw
  <2>4. ASSUME NEW i \in DOMAIN raw
        PROVE  /\ raw[i] \in Members
               /\ turn'[raw[i].id] > 0 /\ raw[i].side = terms'[raw[i].id].side
               /\ raw[i].score = encode_score(terms'[raw[i].id].price, next_seq(turn'[raw[i].id]))
    BY <2>1, <2>3 DEF Packed, Onward
  <2>5. ASSUME NEW i \in DOMAIN raw, NEW j \in DOMAIN raw, i < j
        PROVE  /\ Before(q.side, raw[i], raw[j])
               /\ raw[i].id \notin raced' /\ raw[j].id \notin raced' =>
                      turn'[raw[i].id] # turn'[raw[j].id]
    BY <2>2, <2>3, <2>5 DEF Onward
  <2> QED
    BY <1>1, <2>4, <2>5 DEF RawOk, Packed
<1>3. ASSUME ListOk(q)
      PROVE  ListOk(q)'
  BY <1>3 DEF ListOk, SameRead
<1> QED
  BY <1>2, <1>3 DEF ReadOk, SameRead

\* Spoil, and steps that leave the readers alone.
LEMMA SpoilKeeps ==
    ASSUME Typed, Reads, Onward, Spoil \/ reader' = reader
    PROVE  Reads'
<1>1. reader' = [r \in Readers |-> reader'[r]]
  BY DEF Reads, Spoil
<1> SUFFICES ASSUME NEW r \in Readers
             PROVE  IsRead(reader'[r]) /\ ReadOk(reader[r])'
  BY <1>1 DEF Reads
<1> DEFINE q == reader[r]
           p == reader'[r]
<1>2. IsRead(q) /\ ReadOk(q)
  BY DEF Reads
<1>3. p = q \/ p = [q EXCEPT !.clean = @ /\ q.pc = "idle"]
  BY DEF Spoil
<1>4. SameRead(q, p) /\ IsRead(p)
  <2> HIDE DEF q, p
  <2> QED
    BY <1>2, <1>3 DEF IsRead, SameRead
<1> QED
  BY <1>2, <1>4, ReadLasts

-----------------------------------------------------------------------------
(* The steps of readers.                                                   *)

LEMMA ReaderKeeps ==
    ASSUME Ind, NEW r \in Readers, NEW q, IsRead(q), ReadOk(q),
           reader' = [reader EXCEPT ![r] = q],
           UNCHANGED <<terms, zset, hash, counter, adder, canceler, cleaner, history>>
    PROVE  Ind'
<1>1. UNCHANGED <<turn, gone, raced>>
  BY DEF history
<1>2. Typed' /\ Scored' /\ Distinct' /\ Hashed'
  BY <1>1 DEF Ind, Typed, Scored, Packed, Distinct, Hashed, Met
<1>3. reader' = [s \in Readers |-> IF s = r THEN q ELSE reader[s]]
  BY DEF Ind, Reads
<1>4. \A s \in Readers : s # r => SameRead(reader[s], reader'[s])
  BY <1>3 DEF SameRead
<1>5. Onward
  BY <1>1 DEF Onward
<1>6. \A s \in Readers : s # r => ReadOk(reader[s])'
  BY <1>4, <1>5, ReadLasts DEF Ind, Reads
<1>7. ReadOk(reader[r])'
  <2>1. reader'[r] = q
    BY <1>3
  <2>2. turn' = turn /\ gone' = gone /\ raced' = raced /\ terms' = terms
    BY <1>1
  <2>3. PICK w : w = reader'[r]
    OBVIOUS
  <2>4. w = q /\ ReadOk(w)
    BY ONLY <2>1, <2>3, ReadOk(q)
  <2>5. ReadOk(w)'
    BY ONLY <2>2, <2>4 DEF ReadOk, RawOk, ListOk, Packed
  <2> QED
    BY ONLY <2>3, <2>5 DEF ReadOk, RawOk, ListOk, Packed
<1>8. \A s \in Readers : IsRead(reader'[s])
  BY <1>3 DEF Ind, Reads
<1>9. Reads'
  BY <1>3, <1>6, <1>7, <1>8 DEF Reads
<1> QED
  BY <1>2, <1>9 DEF Ind

LEMMA MatchRangeKeeps ==
    ASSUME Ind, NEW r \in Readers, NEW s \in Sides, MatchRange(r, s)
    PROVE  Ind'
<1> DEFINE side == opposite(s)
           best == BestOf(side, Depth)
           q == [NoRead EXCEPT !.pc = "hashes", !.side = side, !.raw = best]
<1>1. side \in Sides
  BY DEF opposite, Sides
<1>2. reader' = [reader EXCEPT ![r] = q]
  BY DEF MatchRange
<1>3. DOMAIN best \subseteq Nat
  BY <1>1, BestOfLists DEF Ind
<1> HIDE DEF side, best
<1>4. IsRead(q) /\ q.pc = "hashes" /\ q.side = side /\ q.raw = best
  BY <1>1, <1>3 DEF IsRead, ReadStages, NoRead
<1> HIDE DEF q
<1>5. RawOk(q)
  BY <1>1, <1>4, RangeOk DEF Ind, best
<1>6. ReadOk(q)
  BY <1>4, <1>5 DEF ReadOk
<1> QED
  BY <1>2, <1>4, <1>6, ReaderKeeps DEF MatchRange

LEMMA SnapshotBidsKeeps ==
    ASSUME Ind, NEW r \in Readers, SnapshotBids(r)
    PROVE  Ind'
<1> DEFINE best == BestOf("buy", Depth)
           q == [NoRead EXCEPT !.pc = "asks", !.kind = "snapshot", !.raw = best]
<1>1. reader' = [reader EXCEPT ![r] = q]
  BY DEF SnapshotBids
<1>2. DOMAIN best \subseteq Nat
  BY BestOfLists DEF Ind, Sides
<1> HIDE DEF best
<1>3. IsRead(q) /\ ReadOk(q)
  BY <1>2 DEF IsRead, ReadOk, ReadStages, Sides, NoRead
<1> HIDE DEF q
<1> QED
  BY <1>1, <1>3, ReaderKeeps DEF SnapshotBids

LEMMA SnapshotAsksKeeps ==
    ASSUME Ind, NEW r \in Readers, SnapshotAsks(r)
    PROVE  Ind'
<1> DEFINE best == BestOf("sell", Depth)
           old == reader[r]
           q == [old EXCEPT !.pc = "hashes", !.other = best]
<1>1. reader' = [reader EXCEPT ![r] = q] /\ old.pc = "asks" /\ IsRead(old)
  BY DEF SnapshotAsks, Ind, Reads
<1> HIDE DEF best, old
<1>2. q.kind = old.kind /\ IsRead(q) /\ old.kind # "match"
  <2>1. old.kind # "match"
    BY <1>1 DEF IsRead
  <2> QED
    BY <1>1, <2>1 DEF IsRead, ReadStages
<1>3. ReadOk(q)
  BY <1>2 DEF ReadOk
<1> HIDE DEF q
<1> QED
  BY <1>1, <1>2, <1>3, ReaderKeeps DEF SnapshotAsks

LEMMA ReadHashesKeeps ==
    ASSUME Ind, NEW r \in Readers, ReadHashes(r)
    PROVE  Ind'
<1> DEFINE old == reader[r]
           stage == IF old.kind = "snapshot" THEN "asks_hashes" ELSE "done"
           live == WithHash(old.raw)
           q == [old EXCEPT !.list = live, !.pc = stage]
<1>1. reader' = [reader EXCEPT ![r] = q] /\ old.pc = "hashes" /\ IsRead(old) /\ ReadOk(old)
  BY DEF ReadHashes, Ind, Reads
<1>2. \A i \in DOMAIN live : /\ i \in DOMAIN old.raw
                             /\ live[i].id = old.raw[i].id
                             /\ live[i].price = decode_score(old.raw[i].score).price
  BY DEF WithHash
<1>3. stage \in {"asks_hashes", "done"} /\ (old.kind = "match" => stage = "done")
  OBVIOUS
<1> HIDE DEF live, old, stage
<1>4. IsRead(q) /\ q.kind = old.kind /\ q.raw = old.raw /\ q.side = old.side /\ q.list = live
  BY <1>1, <1>3 DEF IsRead, ReadStages
<1> HIDE DEF q
<1>5. ReadOk(q)
  BY <1>1, <1>2, <1>4 DEF ReadOk, RawOk, ListOk
<1> QED
  BY <1>1, <1>4, <1>5, ReaderKeeps DEF ReadHashes

LEMMA SnapshotAskHashesKeeps ==
    ASSUME Ind, NEW r \in Readers, SnapshotAskHashes(r)
    PROVE  Ind'
<1> DEFINE old == reader[r]
           live == WithHash(old.other)
           q == [old EXCEPT !.other = live, !.pc = "done"]
<1>1. reader' = [reader EXCEPT ![r] = q] /\ old.pc = "asks_hashes" /\ IsRead(old)
  BY DEF SnapshotAskHashes, Ind, Reads
<1> HIDE DEF live, old
<1>2. q.kind = old.kind /\ IsRead(q) /\ old.kind # "match"
  <2>1. old.kind # "match"
    BY <1>1 DEF IsRead
  <2> QED
    BY <1>1, <2>1 DEF IsRead, ReadStages
<1>3. ReadOk(q)
  BY <1>2 DEF ReadOk
<1> HIDE DEF q
<1> QED
  BY <1>1, <1>2, <1>3, ReaderKeeps DEF SnapshotAskHashes

LEMMA NoReadOk == IsRead(NoRead) /\ ReadOk(NoRead)
BY DEF NoRead, IsRead, ReadOk, ReadStages, Sides

LEMMA ReadReturnKeeps ==
    ASSUME Ind, NEW r \in Readers, ReadReturn(r)
    PROVE  Ind'
BY NoReadOk, ReaderKeeps DEF ReadReturn

-----------------------------------------------------------------------------
(* The worker's insertion.                                                 *)

LEMMA RestStoreKeeps ==
    ASSUME Ind, NEW id \in Ids, RestStore(id)
    PROVE  Ind'
<1> USE DEF Ind
<1>1. /\ zset' = zset /\ terms' = terms /\ turn' = turn /\ counter' = counter /\ gone' = gone
      /\ canceler' = canceler /\ cleaner' = cleaner
      /\ adder' = [pc |-> "number", id |-> id, seq |-> 0]
      /\ adder.pc = "idle" /\ turn[id] = 0
  BY DEF RestStore
<1>2. raced \subseteq raced' /\ raced' \subseteq Ids /\ (Met(id) => id \in raced')
  BY DEF RestStore, Typed, Met
<1>3. /\ hash' \in [Ids -> Fields \cup {NoHash}] /\ hash'[id] # NoHash
      /\ \A k \in Ids : k # id => hash'[k] = hash[k]
  <2> DEFINE h == [qty |-> terms[id].qty, visible |-> terms[id].visible]
  <2>1. h \in Fields /\ h # NoHash
    BY OrderBookAssumption DEF Typed, Fields
  <2>2. hash' = [hash EXCEPT ![id] = h]
    BY DEF RestStore
  <2> HIDE DEF h
  <2> QED
    BY <2>1, <2>2 DEF Typed
<1>4. Typed'
  <2>1. adder' \in [pc : {"idle", "number", "add"}, id : Nat, seq : 0 .. Multiplier - 1]
    BY <1>1, OrderBookAssumption
  <2> QED
    BY <1>1, <1>2, <1>3, <2>1 DEF Typed
<1>5. Scored' /\ Distinct'
  BY <1>1, <1>2 DEF Scored, Distinct, Packed
<1>6. \A e \in zset : e.id \in Ids /\ e.id # id
  BY <1>1 DEF Scored, Packed, Typed, Members
<1>7. Hashed'
  BY <1>1, <1>2, <1>3, <1>6 DEF Hashed, Met
<1>8. Reads'
  BY <1>1, <1>2, SpoilKeeps DEF Onward, RestStore
<1> QED
  BY <1>4, <1>5, <1>7, <1>8

LEMMA RestNumberKeeps ==
    ASSUME Ind, RestNumber
    PROVE  Ind'
<1> USE DEF Ind
<1> DEFINE me == adder.id
<1>1. /\ zset' = zset /\ terms' = terms /\ hash' = hash /\ counter' = counter + 1 /\ gone' = gone
      /\ canceler' = canceler /\ cleaner' = cleaner /\ raced' = raced /\ reader' = reader
      /\ adder.pc = "number" /\ me \in Ids /\ turn[me] = 0 /\ counter \in Nat
  BY DEF RestNumber, Typed, Scored
<1>2. /\ turn' \in [Ids -> Nat] /\ turn'[me] = counter + 1
      /\ \A k \in Ids : k # me => turn'[k] = turn[k]
  BY <1>1 DEF RestNumber, Typed
<1>3. adder' = NoAdd \/ (/\ adder'.pc = "add" /\ adder'.id = me /\ adder'.seq = next_seq(counter + 1)
                        /\ adder' \in [pc : {"idle", "number", "add"}, id : Nat, seq : 0 .. Multiplier - 1])
  <2> DEFINE n == next_seq(counter + 1)
  <2>1. n \in 0 .. Multiplier - 1
    BY <1>1, SeqInRange
  <2>2. adder' = NoAdd \/ adder' = [adder EXCEPT !.pc = "add", !.seq = n]
    BY DEF RestNumber
  <2> HIDE DEF n
  <2>3. adder \in [pc : {"idle", "number", "add"}, id : Nat, seq : 0 .. Multiplier - 1]
    BY DEF Typed
  <2>4. CASE adder' = [adder EXCEPT !.pc = "add", !.seq = n]
    BY <2>1, <2>3, <2>4 DEF n
  <2> QED
    BY <2>2, <2>4
<1>4. /\ NoAdd.pc = "idle"
      /\ NoAdd \in [pc : {"idle", "number", "add"}, id : Nat, seq : 0 .. Multiplier - 1]
  BY OrderBookAssumption DEF NoAdd
<1>5. Typed'
  BY <1>1, <1>2, <1>3, <1>4 DEF Typed
<1>6. \A e \in zset : e.id \in Ids /\ e.id # me /\ turn'[e.id] = turn[e.id]
  BY <1>1, <1>2 DEF Scored, Packed, Typed, Members
<1>7. Scored'
  BY <1>1, <1>2, <1>3, <1>4, <1>6 DEF Scored, Packed
<1>8. Distinct'
  <2>1. \A e \in zset : e.id \notin raced => turn'[e.id] <= counter
    BY <1>6 DEF Distinct
  <2>2. \A e \in zset : e.id \notin raced => turn'[e.id] <= counter + 1 /\ turn'[e.id] # counter + 1
    BY <1>1, <1>2, <1>6, <2>1
  <2> QED
    BY <1>1, <1>2, <1>3, <1>4, <1>6, <2>2 DEF Distinct
<1>9. Hashed'
  BY <1>1, <1>3, <1>4 DEF Hashed, Met
<1>10. Reads'
  BY <1>1, <1>2, SpoilKeeps DEF Onward
<1> QED
  BY <1>5, <1>7, <1>8, <1>9, <1>10

LEMMA RestAddKeeps ==
    ASSUME Ind, RestAdd
    PROVE  Ind'
<1> USE DEF Ind
<1> DEFINE me == adder.id
           new == [id |-> me, side |-> terms[me].side, score |-> encode_score(terms[me].price, adder.seq)]
           rest == {e \in zset : ~(e.id = me /\ e.side = terms[me].side)}
<1>1. /\ terms' = terms /\ hash' = hash /\ counter' = counter /\ gone' = gone
      /\ canceler' = canceler /\ cleaner' = cleaner /\ raced' = raced /\ turn' = turn
      /\ zset' = rest \cup {new} /\ adder' = NoAdd /\ adder.pc = "add" /\ me \in Ids
  BY DEF RestAdd, Typed, history
<1>2. /\ NoAdd.pc = "idle"
      /\ NoAdd \in [pc : {"idle", "number", "add"}, id : Nat, seq : 0 .. Multiplier - 1]
  BY OrderBookAssumption DEF NoAdd
<1>3. terms[me].price \in Nat /\ terms[me].side \in Sides
  BY <1>1, OrderBookAssumption DEF Typed, Sides
<1>4. adder.seq = next_seq(turn[me]) /\ turn[me] > 0 /\ adder.seq \in 0 .. Multiplier - 1
  BY <1>1 DEF Scored, Typed
<1>5. new \in Members
  <2>1. encode_score(terms[me].price, adder.seq) \in Nat
    BY <1>3, <1>4, ScoreType
  <2> QED
    BY <1>1, <1>3, <2>1 DEF Members
<1>6. Packed(new) /\ new.id = me
  BY <1>4 DEF Packed
<1>7. rest \subseteq zset
  OBVIOUS
<1> HIDE DEF new, rest
<1>8. Typed'
  <2>1. IsFiniteSet(rest \cup {new})
    BY <1>7, FS_Subset, FS_AddElement DEF Typed
  <2> QED
    BY <1>1, <1>2, <1>5, <1>7, <2>1 DEF Typed
<1>9. Scored'
  BY <1>1, <1>2, <1>6, <1>7 DEF Scored, Packed
<1>10. Distinct'
  BY <1>1, <1>2, <1>6, <1>7 DEF Distinct
<1>11. Hashed'
  BY <1>1, <1>2, <1>6, <1>7 DEF Hashed, Met
<1>12. Reads'
  BY <1>1, SpoilKeeps DEF Onward, RestAdd
<1> QED
  BY <1>8, <1>9, <1>10, <1>11, <1>12

LEMMA AdderDiesKeeps ==
    ASSUME Ind, AdderDies
    PROVE  Ind'
<1> USE DEF Ind
<1> DEFINE me == adder.id
<1>1. /\ zset' = zset /\ terms' = terms /\ hash' = hash /\ counter' = counter /\ gone' = gone
      /\ canceler' = canceler /\ cleaner' = cleaner /\ raced' = raced /\ reader' = reader
      /\ adder' = NoAdd /\ me \in Ids /\ counter \in Nat
  BY DEF AdderDies, Typed
<1>2. /\ NoAdd.pc = "idle"
      /\ NoAdd \in [pc : {"idle", "number", "add"}, id : Nat, seq : 0 .. Multiplier - 1]
  BY OrderBookAssumption DEF NoAdd
<1>3. turn' \in [Ids -> Nat] /\ \A k \in Ids : turn[k] > 0 => turn'[k] = turn[k]
  BY <1>1 DEF AdderDies, Typed
<1>4. Typed'
  BY <1>1, <1>2, <1>3 DEF Typed
<1>5. \A e \in zset : e.id \in Ids /\ turn'[e.id] = turn[e.id]
  BY <1>3 DEF Scored, Packed, Typed, Members
<1>6. Scored'
  BY <1>1, <1>2, <1>5 DEF Scored, Packed
<1>7. Distinct'
  BY <1>1, <1>2, <1>5 DEF Distinct
<1>8. Hashed'
  BY <1>1, <1>2 DEF Hashed, Met
<1>9. Reads'
  BY <1>1, <1>3, SpoilKeeps DEF Onward
<1> QED
  BY <1>4, <1>6, <1>7, <1>8, <1>9

-----------------------------------------------------------------------------
(* Fills, cancels and the clearing of the book.                            *)

\* Members leave: what was true of them stays so.
LEMMA ShrinkKeeps ==
    ASSUME Ind, zset' \subseteq zset, raced \subseteq raced',
           UNCHANGED <<terms, counter, adder, turn>>
    PROVE  Scored' /\ Distinct' /\ IsFiniteSet(zset') /\ zset' \subseteq Members
<1>1. IsFiniteSet(zset') /\ zset' \subseteq Members
  BY FS_Subset DEF Ind, Typed
<1>2. Scored'
  BY DEF Ind, Scored, Packed
<1>3. Distinct'
  BY DEF Ind, Distinct
<1> QED
  BY <1>1, <1>2, <1>3

LEMMA FillPartKeeps ==
    ASSUME Ind, NEW id \in Ids, FillPart(id)
    PROVE  Ind'
<1> USE DEF Ind
<1>1. /\ zset' = zset /\ terms' = terms /\ turn' = turn /\ counter' = counter /\ gone' = gone
      /\ canceler' = canceler /\ cleaner' = cleaner /\ adder' = adder /\ raced' = raced
      /\ adder.pc = "idle" /\ Spoil
  BY DEF FillPart, history
<1>2. /\ hash' \in [Ids -> Fields \cup {NoHash}] /\ hash'[id] # NoHash
      /\ \A k \in Ids : k # id => hash'[k] = hash[k]
  <2> DEFINE h == [qty |-> 1, visible |-> 1]
  <2>1. h \in Fields /\ h # NoHash
    BY OrderBookAssumption DEF Fields
  <2>2. hash' = [hash EXCEPT ![id] = h]
    BY DEF FillPart
  <2> HIDE DEF h
  <2> QED
    BY <2>1, <2>2 DEF Typed
<1>3. Scored' /\ Distinct'
  BY <1>1, ShrinkKeeps
<1>4. Typed'
  BY <1>1, <1>2 DEF Typed
<1>5. \A e \in zset : e.id \in Ids
  BY DEF Typed, Members
<1>6. Hashed'
  BY <1>1, <1>2, <1>5 DEF Hashed, Met
<1>7. Reads'
  BY <1>1, SpoilKeeps DEF Onward
<1> QED
  BY <1>3, <1>4, <1>6, <1>7

\* ZREM takes the order's own member.
LEMMA RemoveTakes ==
    ASSUME Ind, NEW id \in Ids
    PROVE  remove_resting_order(id, terms[id].side) = {e \in zset : e.id # id}
BY DEF Ind, Scored, Packed, remove_resting_order

LEMMA FillAllKeeps ==
    ASSUME Ind, NEW id \in Ids, FillAll(id)
    PROVE  Ind'
<1> USE DEF Ind
<1>1. /\ terms' = terms /\ turn' = turn /\ counter' = counter /\ gone' = gone
      /\ canceler' = canceler /\ cleaner' = cleaner /\ adder' = adder /\ raced' = raced
      /\ adder.pc = "idle" /\ Spoil
  BY DEF FillAll, history
<1>2. zset' = {e \in zset : e.id # id}
  BY RemoveTakes DEF FillAll
<1>3. /\ hash' \in [Ids -> Fields \cup {NoHash}]
      /\ \A k \in Ids : k # id => hash'[k] = hash[k]
  BY DEF FillAll, Typed
<1>4. Scored' /\ Distinct' /\ IsFiniteSet(zset') /\ zset' \subseteq Members
  BY <1>1, <1>2, ShrinkKeeps
<1>5. Typed'
  BY <1>1, <1>3, <1>4 DEF Typed
<1>6. \A e \in zset : e.id \in Ids
  BY DEF Typed, Members
<1>7. Hashed'
  BY <1>1, <1>2, <1>3, <1>6 DEF Hashed, Met
<1>8. Reads'
  BY <1>1, SpoilKeeps DEF Onward
<1> QED
  BY <1>4, <1>5, <1>7, <1>8

LEMMA CancelRemoveKeeps ==
    ASSUME Ind, NEW c \in Cancelers, NEW id \in Ids, CancelRemove(c, id)
    PROVE  Ind'
<1> USE DEF Ind
<1>1. /\ terms' = terms /\ turn' = turn /\ counter' = counter /\ gone' = gone
      /\ hash' = hash /\ cleaner' = cleaner /\ adder' = adder /\ Spoil
  BY DEF CancelRemove
<1>2. zset' = {e \in zset : e.id # id}
  BY RemoveTakes DEF CancelRemove
<1>3. /\ raced \subseteq raced' /\ raced' \subseteq Ids
      /\ adder.pc # "idle" /\ adder.id = id => id \in raced'
  BY DEF CancelRemove, Typed, Adding
<1>4. /\ canceler' \in [Cancelers -> [pc : {"idle", "delete"}, id : Nat]]
      /\ canceler'[c].id = id /\ \A d \in Cancelers : d # c => canceler'[d] = canceler[d]
  BY OrderBookAssumption DEF CancelRemove, Typed
<1>5. Scored' /\ Distinct' /\ IsFiniteSet(zset') /\ zset' \subseteq Members
  BY <1>1, <1>2, <1>3, ShrinkKeeps
<1>6. Typed'
  BY <1>1, <1>3, <1>4, <1>5 DEF Typed
<1>7. \A k : Met(k)' => Met(k) \/ k = id
  BY <1>1, <1>4 DEF Met
<1>8. Hashed'
  BY <1>1, <1>2, <1>3, <1>7 DEF Hashed
<1>9. Reads'
  BY <1>1, <1>3, SpoilKeeps DEF Onward
<1> QED
  BY <1>5, <1>6, <1>8, <1>9

LEMMA CancelDeleteKeeps ==
    ASSUME Ind, NEW c \in Cancelers, CancelDelete(c)
    PROVE  Ind'
<1> USE DEF Ind
<1> DEFINE id == canceler[c].id
<1>1. /\ terms' = terms /\ turn' = turn /\ counter' = counter /\ gone' = gone \cup {id}
      /\ zset' = zset /\ cleaner' = cleaner /\ adder' = adder /\ Spoil
      /\ canceler[c].pc = "delete" /\ id \in Ids
  BY DEF CancelDelete, Typed
<1>2. /\ raced \subseteq raced' /\ raced' \subseteq Ids
      /\ adder.pc # "idle" /\ adder.id = id => id \in raced'
  BY <1>1 DEF CancelDelete, Typed, Adding
<1>3. /\ canceler' \in [Cancelers -> [pc : {"idle", "delete"}, id : Nat]]
      /\ canceler'[c].pc = "idle" /\ \A d \in Cancelers : d # c => canceler'[d] = canceler[d]
  BY OrderBookAssumption DEF CancelDelete, Typed, NoCancel
<1>4. /\ hash' \in [Ids -> Fields \cup {NoHash}]
      /\ \A k \in Ids : k # id => hash'[k] = hash[k]
  BY DEF CancelDelete, Typed
<1>5. Scored' /\ Distinct'
  BY <1>1, <1>2, ShrinkKeeps
<1>6. Typed'
  BY <1>1, <1>2, <1>3, <1>4 DEF Typed
<1>7. Met(id) /\ \A k : Met(k)' => Met(k)
  BY <1>1, <1>3 DEF Met
<1>8. (\A e \in zset : e.id \in Ids) /\ (adder.pc # "idle" => adder.id \in Ids)
  BY DEF Typed, Members
<1>9. Hashed'
  <2> HIDE DEF id
  <2>1. \A e \in zset : e.id # id => hash'[e.id] = hash[e.id]
    BY <1>4, <1>8
  <2>2. \A e \in zset' : hash'[e.id] = NoHash \/ Met(e.id)' => e.id \in raced'
    BY <1>1, <1>2, <1>7, <2>1 DEF Hashed
  <2>3. adder.pc # "idle" /\ (hash'[adder.id] = NoHash \/ Met(adder.id)) => adder.id \in raced'
    BY <1>2, <1>4, <1>7, <1>8 DEF Hashed
  <2>4. adder.pc # "idle" /\ Met(adder.id)' => Met(adder.id)
    BY <1>1, <1>7
  <2> QED
    BY <1>1, <2>2, <2>3, <2>4 DEF Hashed
<1>10. Reads'
  BY <1>1, <1>2, SpoilKeeps DEF Onward
<1> QED
  BY <1>5, <1>6, <1>9, <1>10

LEMMA ClearListKeeps ==
    ASSUME Ind, ClearList
    PROVE  Ind'
<1> USE DEF Ind
<1>1. /\ UNCHANGED <<terms, zset, hash, counter, adder, reader, canceler, turn, gone, raced>>
      /\ cleaner' = [pc |-> "delete", ids |-> {e.id : e \in zset}]
  BY DEF ClearList, history
<1>2. \A e \in zset : e.id \in Ids
  BY DEF Typed, Members
<1>3. cleaner' \in [pc : {"not_yet", "delete", "done"}, ids : SUBSET Ids]
  BY <1>1, <1>2
<1>4. Typed'
  BY <1>1, <1>3 DEF Typed
<1>5. Scored' /\ Distinct'
  BY <1>1, ShrinkKeeps
<1>6. Hashed'
  BY <1>1 DEF Hashed, Met
<1>7. Reads'
  BY <1>1, SpoilKeeps DEF Onward
<1> QED
  BY <1>4, <1>5, <1>6, <1>7

LEMMA ClearDeleteKeeps ==
    ASSUME Ind, ClearDelete
    PROVE  Ind'
<1> USE DEF Ind
<1>1. /\ terms' = terms /\ turn' = turn /\ gone' = gone /\ canceler' = canceler /\ adder' = adder /\ Spoil
      /\ zset' = {} /\ counter' = 0 /\ cleaner' = [pc |-> "done", ids |-> {}]
  BY DEF ClearDelete
<1>2. /\ raced \subseteq raced' /\ raced' \subseteq Ids
      /\ adder.pc # "idle" => adder.id \in raced'
  BY DEF ClearDelete, Typed
<1>3. hash' \in [Ids -> Fields \cup {NoHash}]
  BY DEF ClearDelete, Typed
<1>4. Typed'
  BY <1>1, <1>2, <1>3, FS_EmptySet DEF Typed
<1>5. Scored' /\ Distinct' /\ Hashed'
  BY <1>1, <1>2 DEF Scored, Distinct, Hashed
<1>6. Reads'
  BY <1>1, <1>2, SpoilKeeps DEF Onward
<1> QED
  BY <1>4, <1>5, <1>6

-----------------------------------------------------------------------------
(* The theorems.                                                           *)

LEMMA InitHolds == Init => Ind
<1> SUFFICES ASSUME Init PROVE Ind
  OBVIOUS
<1>1. Typed
  BY FS_EmptySet, OrderBookAssumption DEF Init, Typed, NoAdd, NoCancel
<1>2. Scored /\ Distinct /\ Hashed
  BY DEF Init, Scored, Distinct, Hashed, NoAdd
<1>3. Reads
  BY NoReadOk DEF Init, Reads
<1> QED
  BY <1>1, <1>2, <1>3 DEF Ind

LEMMA NextKeeps == Ind /\ [Next]_vars => Ind'
<1> SUFFICES ASSUME Ind, [Next]_vars PROVE Ind'
  OBVIOUS
<1>1. CASE UNCHANGED vars
  <2>1. /\ UNCHANGED <<terms, zset, hash, counter, adder, canceler, cleaner, turn, gone, raced>>
        /\ reader' = reader
    BY <1>1 DEF vars
  <2>2. Typed' /\ Scored' /\ Distinct' /\ Hashed'
    BY <2>1 DEF Ind, Typed, Scored, Packed, Distinct, Hashed, Met
  <2>3. Reads'
    BY <2>1, SpoilKeeps DEF Ind, Onward
  <2> QED
    BY <2>2, <2>3 DEF Ind
<1>2. ASSUME NEW r \in Readers,
             \/ \E s \in {"buy", "sell"} : MatchRange(r, s)
             \/ SnapshotBids(r) \/ SnapshotAsks(r) \/ SnapshotAskHashes(r)
             \/ ReadHashes(r) \/ ReadReturn(r)
      PROVE  Ind'
  BY <1>2, MatchRangeKeeps, SnapshotBidsKeeps, SnapshotAsksKeeps, SnapshotAskHashesKeeps,
     ReadHashesKeeps, ReadReturnKeeps DEF Sides
<1>3. ASSUME NEW id \in Ids, RestStore(id) \/ FillPart(id) \/ FillAll(id)
      PROVE  Ind'
  BY <1>3, RestStoreKeeps, FillPartKeeps, FillAllKeeps
<1>4. ASSUME NEW c \in Cancelers, CancelDelete(c) \/ \E id \in Ids : CancelRemove(c, id)
      PROVE  Ind'
  BY <1>4, CancelDeleteKeeps, CancelRemoveKeeps
<1>5. CASE RestNumber \/ RestAdd \/ AdderDies \/ ClearList \/ ClearDelete
  BY <1>5, RestNumberKeeps, RestAddKeeps, AdderDiesKeeps, ClearListKeeps, ClearDeleteKeeps
<1> QED
  BY <1>1, <1>2, <1>3, <1>4, <1>5 DEF Next

\* Scores, turns and HASHes of the book, and what readers hold of it, agree at
\* every step, for any orders and clients (redis_client/orderbook.py).
THEOREM BookConsistent == Spec => []Ind
BY InitHolds, NextKeeps, PTL DEF Spec

LEMMA TypedIsTypeOK == Ind => TypeOK
<1> SUFFICES ASSUME Ind PROVE TypeOK
  OBVIOUS
<1>1. \A e \in zset : e.id \in Ids /\ e.side = terms[e.id].side /\ e.score \in Nat
  BY DEF Ind, Typed, Members, Scored, Packed
<1> QED
  BY <1>1 DEF Ind, Typed, TypeOK, Fields

\* A member of the book has its HASH unless a cancel or a clear ran while the
\* worker was between its HSET and its ZADD; all state keeps its type
\* (store_order_hash, remove_resting_order, delete_order_hash, clear_symbol_book).
THEOREM HashesStay == Spec => []MembersHaveHash
<1>1. Ind => MembersHaveHash
  BY TypedIsTypeOK DEF Ind, Hashed, MembersHaveHash
<1> QED
  BY <1>1, BookConsistent, PTL

\* A canceled order is not in the book again unless its cancel met the worker's
\* insertion, which does not look for cancels (cancel_order, _insert_resting_taker).
THEOREM CancelsLast == Spec => []CanceledStaysOut
<1>1. Ind => CanceledStaysOut
  BY DEF Ind, Hashed, Met, CanceledStaysOut
<1> QED
  BY <1>1, BookConsistent, PTL

\* A member of a raw list whose packing is exact.
LEMMA MemberExact ==
    ASSUME Ind, NEW e \in Members, Packed(e), Precise(e.id)
    PROVE  LET p == PriceInt(terms[e.id].price)
               s == next_seq(turn[e.id])
           IN  /\ p \in Nat /\ s \in 0 .. Multiplier - 1 /\ terms[e.id].price \in Nat /\ turn[e.id] \in Nat
               /\ e.score = p * Multiplier + s
               /\ decode_score(e.score).price = p
<1>1. e.id \in Ids /\ terms[e.id].price \in Nat /\ turn[e.id] \in Nat
  <2>1. e.id \in Ids
    BY DEF Members
  <2>2. terms[e.id] \in Menu /\ turn[e.id] \in Nat
    BY <2>1 DEF Ind, Typed
  <2> QED
    BY <2>1, <2>2, OrderBookAssumption
<1>2. next_seq(turn[e.id]) \in 0 .. Multiplier - 1
  BY <1>1, SeqInRange
<1> QED
  BY <1>1, <1>2, ScoreExact DEF Packed, Precise

\* The price a maker is matched at is its limit to within half a tick, wherever
\* the score holds it exactly (encode_score, decode_score).
THEOREM DecodedPriceClose == Spec => []PriceWithinHalfTick
<1>1. ASSUME Ind PROVE PriceWithinHalfTick
  <2> SUFFICES ASSUME NEW r \in Readers, reader[r].pc = "done", reader[r].kind = "match",
                      NEW i \in DOMAIN reader[r].list, Precise(reader[r].list[i].id)
               PROVE  LET id == reader[r].list[i].id
                          drift == 2 * (reader[r].list[i].price * Tick - terms[id].price)
                      IN  -Tick <= drift /\ drift <= Tick
    BY DEF PriceWithinHalfTick
  <2> DEFINE e == reader[r].raw[i]
             l == reader[r].list[i]
  <2>1. e \in Members /\ Packed(e) /\ l.id = e.id /\ l.price = decode_score(e.score).price
    BY <1>1 DEF Ind, Reads, ReadOk, RawOk, ListOk
  <2> HIDE DEF e, l
  <2>2. l.price = PriceInt(terms[e.id].price) /\ terms[e.id].price \in Nat
    BY <1>1, <2>1, MemberExact DEF l
  <2>3. Tick \in Nat \ {0}
    BY OrderBookAssumption
  <2>4. LET drift == 2 * (l.price * Tick - terms[l.id].price)
        IN  -Tick <= drift /\ drift <= Tick
    BY <2>1, <2>2, <2>3, HalfEvenClose DEF PriceInt
  <2> QED
    BY <2>4 DEF l
<1> QED
  BY <1>1, BookConsistent, PTL

\* Two members, the first before the second in the order of a side.
LEMMA PairInOrder ==
    ASSUME Ind, NEW side \in Sides,
           NEW a \in Members, NEW b \in Members, Packed(a), Packed(b), Precise(a.id), Precise(b.id),
           Before(side, a, b),
           a.id \notin raced /\ b.id \notin raced => turn[a.id] # turn[b.id]
    PROVE  LET pa == decode_score(a.score).price
               pb == decode_score(b.score).price
           IN  \/ IF side = "sell" THEN pa < pb ELSE pa > pb
               \/ /\ pa = pb
                  /\ SameLap(a.id, b.id) /\ {a.id, b.id} \cap raced = {} =>
                         IF side = "sell" THEN turn[a.id] < turn[b.id] ELSE turn[a.id] > turn[b.id]
<1> DEFINE p == decode_score(a.score).price
           q == decode_score(b.score).price
           s == next_seq(turn[a.id])
           t == next_seq(turn[b.id])
           m == Multiplier
<1>1. /\ p \in Nat /\ s \in 0 .. m - 1 /\ a.score = p * m + s /\ turn[a.id] \in Nat
      /\ q \in Nat /\ t \in 0 .. m - 1 /\ b.score = q * m + t /\ turn[b.id] \in Nat
      /\ m \in Nat \ {0}
  BY MemberExact, OrderBookAssumption
<1>2. /\ turn[a.id] = m * (turn[a.id] \div m) + s
      /\ turn[b.id] = m * (turn[b.id] \div m) + t
      /\ turn[a.id] \div m \in Nat /\ turn[b.id] \div m \in Nat
  BY <1>1, Division DEF next_seq
<1>3. a.score \in Nat /\ b.score \in Nat
  BY DEF Members
<1> HIDE DEF p, q, s, t, m
<1>4. ASSUME SameLap(a.id, b.id), turn[a.id] # turn[b.id]
      PROVE  (s <= t => turn[a.id] < turn[b.id]) /\ (t <= s => turn[b.id] < turn[a.id])
  <2> DEFINE k == m * (turn[a.id] \div m)
  <2>1. k \in Nat /\ turn[a.id] = k + s /\ turn[b.id] = k + t
    BY <1>1, <1>2, <1>4 DEF SameLap, m
  <2> HIDE DEF k
  <2> QED
    BY <1>1, <1>4, <2>1
<1>5. CASE side = "sell"
  <2>1. p * m + s <= q * m + t
    BY <1>1, <1>3, <1>5 DEF Before, Below
  <2>2. p < q \/ (p = q /\ s <= t)
    BY <1>1, <2>1, ScoreOrder
  <2> QED
    BY <1>4, <1>5, <2>2 DEF p, q
<1>6. CASE side = "buy"
  <2>1. q * m + t <= p * m + s
    BY <1>1, <1>3, <1>6 DEF Before, Below
  <2>2. q < p \/ (p = q /\ t <= s)
    BY <1>1, <2>1, ScoreOrder
  <2> QED
    BY <1>1, <1>4, <1>6, <2>2 DEF p, q
<1> QED
  BY <1>5, <1>6 DEF Sides

\* Entry i of a list comes before entry j, as the engine needs it.
InTurn(side, l, i, j) ==
    \/ IF side = "sell" THEN l[i].price < l[j].price ELSE l[i].price > l[j].price
    \/ /\ l[i].price = l[j].price
       /\ SameLap(l[i].id, l[j].id) /\ {l[i].id, l[j].id} \cap raced = {} =>
              IF side = "sell" THEN turn[l[i].id] < turn[l[j].id] ELSE turn[l[i].id] > turn[l[j].id]

\* The engine sees the best prices first and, at one price, asks oldest first and
\* bids youngest first, as long as the counter has not rolled over between the
\* two orders and the score is exact (get_opposite_orders_for_match).
THEOREM MatchesInOrder == Spec => []MatchReadOrder
<1>1. ASSUME Ind, NEW r \in Readers, reader[r].pc = "done", reader[r].kind = "match",
             NEW i \in DOMAIN reader[r].list, NEW j \in DOMAIN reader[r].list, i < j,
             Precise(reader[r].list[i].id), Precise(reader[r].list[j].id)
      PROVE  InTurn(reader[r].side, reader[r].list, i, j)
  <2> DEFINE a == reader[r].raw[i]
             b == reader[r].raw[j]
             la == reader[r].list[i]
             lb == reader[r].list[j]
             side == reader[r].side
  <2>1. /\ a \in Members /\ Packed(a) /\ la.id = a.id /\ la.price = decode_score(a.score).price
        /\ b \in Members /\ Packed(b) /\ lb.id = b.id /\ lb.price = decode_score(b.score).price
    BY <1>1 DEF Ind, Reads, ReadOk, RawOk, ListOk
  <2>2. /\ Before(side, a, b) /\ side \in Sides
        /\ a.id \notin raced /\ b.id \notin raced => turn[a.id] # turn[b.id]
    BY <1>1 DEF Ind, Reads, ReadOk, RawOk, ListOk, IsRead
  <2> HIDE DEF a, b, la, lb, side
  <2>3. Precise(a.id) /\ Precise(b.id)
    BY <1>1, <2>1 DEF la, lb
  <2>4. \/ IF side = "sell" THEN la.price < lb.price ELSE la.price > lb.price
        \/ /\ la.price = lb.price
           /\ SameLap(la.id, lb.id) /\ {la.id, lb.id} \cap raced = {} =>
                  IF side = "sell" THEN turn[la.id] < turn[lb.id] ELSE turn[la.id] > turn[lb.id]
    BY <1>1, <2>1, <2>2, <2>3, PairInOrder
  <2> QED
    BY <2>4 DEF la, lb, side, InTurn
<1>2. Ind => MatchReadOrder
  <2>1. Ind => \A r \in Readers : reader[r].pc = "done" /\ reader[r].kind = "match" =>
                 \A i, j \in DOMAIN reader[r].list :
                     i < j /\ Precise(reader[r].list[i].id) /\ Precise(reader[r].list[j].id) =>
                         InTurn(reader[r].side, reader[r].list, i, j)
    BY ONLY <1>1
  <2> QED
    BY ONLY <2>1, Zenon DEF MatchReadOrder, InTurn
<1> QED
  BY <1>2, BookConsistent, PTL
-----------------------------------------------------------------------------
(* Snapshots.                                                              *)

Bids == BestOf("buy", Depth)
Asks == BestOf("sell", Depth)
BidList == WithHash(Bids)
AskList == WithHash(Asks)

\* What a snapshot that no write has disturbed holds at each stage.
Snap(q, bids, asks, bidList, askList) ==
    q.kind = "snapshot" /\ q.clean =>
        /\ q.pc \in {"asks", "hashes"} => q.raw = bids
        /\ q.pc \in {"hashes", "asks_hashes"} => q.other = asks
        /\ q.pc \in {"asks_hashes", "done"} => q.list = bidList
        /\ q.pc = "done" => q.other = askList

Snaps == \A r \in Readers : Snap(reader[r], Bids, Asks, BidList, AskList)

LEMMA SameRanges ==
    ASSUME zset' = zset, hash' = hash
    PROVE  Bids' = Bids /\ Asks' = Asks /\ BidList' = BidList /\ AskList' = AskList
<1>1. Bids' = Bids /\ Asks' = Asks
  BY DEF Bids, Asks, BestOf, Ranked, side_key
<1> QED
  BY <1>1 DEF BidList, AskList, WithHash

\* A write spoils the reads in progress.
LEMMA SpoiledSnaps ==
    ASSUME Ind, Spoil
    PROVE  Snaps'
<1> SUFFICES ASSUME NEW r \in Readers
             PROVE  Snap(reader'[r], Bids', Asks', BidList', AskList')
  BY DEF Snaps
<1>1. PICK q, p : q = reader[r] /\ p = reader'[r]
  OBVIOUS
<1>2. IsRead(q) /\ p = [q EXCEPT !.clean = @ /\ q.pc = "idle"]
  BY <1>1 DEF Ind, Reads, Spoil
<1>3. p.pc = q.pc /\ (p.clean => q.pc = "idle")
  BY ONLY <1>2 DEF IsRead
<1>4. PICK b, a, lb, la : b = Bids' /\ a = Asks' /\ lb = BidList' /\ la = AskList'
  OBVIOUS
<1>5. Snap(p, b, a, lb, la)
  BY ONLY <1>3 DEF Snap
<1> QED
  BY ONLY <1>1, <1>4, <1>5

\* One read goes on.
LEMMA SnapStep ==
    ASSUME Ind, Snaps, zset' = zset, hash' = hash, NEW r \in Readers, NEW q,
           reader' = [reader EXCEPT ![r] = q], Snap(q, Bids, Asks, BidList, AskList)
    PROVE  Snaps'
<1>1. \A p \in Readers : reader'[p] = IF p = r THEN q ELSE reader[p]
  BY DEF Ind, Reads
<1>2. \A p \in Readers : Snap(reader'[p], Bids, Asks, BidList, AskList)
  BY <1>1 DEF Snaps
<1> QED
  BY <1>2, SameRanges DEF Snaps

LEMMA SnapsNext ==
    ASSUME Ind, Snaps, [Next]_vars
    PROVE  Snaps'
<1>0. \A r \in Readers : IsRead(reader[r]) /\ Snap(reader[r], Bids, Asks, BidList, AskList)
  BY DEF Ind, Reads, Snaps
<1>1. ASSUME zset' = zset, hash' = hash, reader' = reader
      PROVE  Snaps'
  BY <1>1, SameRanges DEF Snaps
<1>2. CASE UNCHANGED vars
  BY <1>1, <1>2 DEF vars
<1>3. CASE RestNumber \/ AdderDies \/ ClearList
  BY <1>1, <1>3 DEF RestNumber, AdderDies, ClearList
<1>4. CASE RestAdd \/ ClearDelete
  BY <1>4, SpoiledSnaps DEF RestAdd, ClearDelete
<1>5. ASSUME NEW id \in Ids, RestStore(id) \/ FillPart(id) \/ FillAll(id)
      PROVE  Snaps'
  BY <1>5, SpoiledSnaps DEF RestStore, FillPart, FillAll
<1>6. ASSUME NEW c \in Cancelers, CancelDelete(c) \/ \E id \in Ids : CancelRemove(c, id)
      PROVE  Snaps'
  BY <1>6, SpoiledSnaps DEF CancelDelete, CancelRemove
<1>7. ASSUME NEW r \in Readers, NEW side \in Sides, MatchRange(r, side)
      PROVE  Snaps'
  <2>1. PICK q : q = [NoRead EXCEPT !.pc = "hashes", !.side = opposite(side), !.raw = BestOf(opposite(side), Depth)]
    OBVIOUS
  <2>2. reader' = [reader EXCEPT ![r] = q] /\ zset' = zset /\ hash' = hash
    BY <1>7, <2>1 DEF MatchRange
  <2>3. q.kind = "match"
    BY ONLY <2>1 DEF NoRead
  <2>4. Snap(q, Bids, Asks, BidList, AskList)
    BY ONLY <2>3 DEF Snap
  <2> QED
    BY <2>2, <2>4, SnapStep
<1>8. ASSUME NEW r \in Readers, SnapshotBids(r)
      PROVE  Snaps'
  <2>1. PICK q : q = [NoRead EXCEPT !.pc = "asks", !.kind = "snapshot", !.raw = BestOf("buy", Depth)]
    OBVIOUS
  <2>2. reader' = [reader EXCEPT ![r] = q] /\ zset' = zset /\ hash' = hash
    BY <1>8, <2>1 DEF SnapshotBids
  <2>3. q.pc = "asks" /\ q.raw = Bids
    BY ONLY <2>1 DEF NoRead, Bids
  <2>4. Snap(q, Bids, Asks, BidList, AskList)
    BY ONLY <2>3 DEF Snap
  <2> QED
    BY <2>2, <2>4, SnapStep
<1>9. ASSUME NEW r \in Readers, SnapshotAsks(r)
      PROVE  Snaps'
  <2>1. PICK p, q : p = reader[r] /\ q = [p EXCEPT !.pc = "hashes", !.other = BestOf("sell", Depth)]
    OBVIOUS
  <2>2. reader' = [reader EXCEPT ![r] = q] /\ zset' = zset /\ hash' = hash /\ p.pc = "asks"
    BY <1>9, <2>1 DEF SnapshotAsks, Ind, Reads
  <2>3. IsRead(p) /\ Snap(p, Bids, Asks, BidList, AskList)
    BY <1>0, <2>1
  <2>4. q.pc = "hashes" /\ q.raw = p.raw /\ q.other = Asks /\ q.kind = p.kind /\ q.clean = p.clean
    BY ONLY <2>1, <2>3 DEF IsRead, Asks
  <2>5. Snap(q, Bids, Asks, BidList, AskList)
    BY ONLY <2>2, <2>3, <2>4 DEF Snap
  <2> QED
    BY <2>2, <2>5, SnapStep
<1>10. ASSUME NEW r \in Readers, ReadHashes(r)
       PROVE  Snaps'
  <2>1. PICK p, q, pc : /\ p = reader[r] /\ q = [p EXCEPT !.list = WithHash(p.raw), !.pc = pc]
                        /\ pc = IF p.kind = "snapshot" THEN "asks_hashes" ELSE "done"
    OBVIOUS
  <2>2. reader' = [reader EXCEPT ![r] = q] /\ zset' = zset /\ hash' = hash /\ p.pc = "hashes"
    BY <1>10, <2>1 DEF ReadHashes, Ind, Reads
  <2>3. IsRead(p) /\ Snap(p, Bids, Asks, BidList, AskList)
    BY <1>0, <2>1
  <2>4. q.pc = pc /\ q.list = WithHash(p.raw) /\ q.other = p.other /\ q.kind = p.kind /\ q.clean = p.clean
    BY ONLY <2>1, <2>3 DEF IsRead
  <2>5. p.raw = Bids => WithHash(p.raw) = BidList
    BY ONLY DEF BidList
  <2>6. Snap(q, Bids, Asks, BidList, AskList)
    BY ONLY <2>1, <2>2, <2>3, <2>4, <2>5 DEF Snap
  <2> QED
    BY <2>2, <2>6, SnapStep
<1>11. ASSUME NEW r \in Readers, SnapshotAskHashes(r)
       PROVE  Snaps'
  <2>1. PICK p, q : p = reader[r] /\ q = [p EXCEPT !.other = WithHash(p.other), !.pc = "done"]
    OBVIOUS
  <2>2. reader' = [reader EXCEPT ![r] = q] /\ zset' = zset /\ hash' = hash /\ p.pc = "asks_hashes"
    BY <1>11, <2>1 DEF SnapshotAskHashes, Ind, Reads
  <2>3. IsRead(p) /\ Snap(p, Bids, Asks, BidList, AskList)
    BY <1>0, <2>1
  <2>4. q.pc = "done" /\ q.list = p.list /\ q.other = WithHash(p.other) /\ q.kind = p.kind /\ q.clean = p.clean
    BY ONLY <2>1, <2>3 DEF IsRead
  <2>5. p.other = Asks => WithHash(p.other) = AskList
    BY ONLY DEF AskList
  <2>6. Snap(q, Bids, Asks, BidList, AskList)
    BY ONLY <2>2, <2>3, <2>4, <2>5 DEF Snap
  <2> QED
    BY <2>2, <2>6, SnapStep
<1>12. ASSUME NEW r \in Readers, ReadReturn(r)
       PROVE  Snaps'
  <2>1. reader' = [reader EXCEPT ![r] = NoRead] /\ zset' = zset /\ hash' = hash
    BY <1>12 DEF ReadReturn
  <2>2. Snap(NoRead, Bids, Asks, BidList, AskList)
    BY DEF Snap, NoRead
  <2> QED
    BY <2>1, <2>2, SnapStep
<1> QED
  BY <1>2, <1>3, <1>4, <1>5, <1>6, <1>7, <1>8, <1>9, <1>10, <1>11, <1>12 DEF Next, Sides

\* The price of a member.
Shows(e) == decode_score(e.score).price

LEMMA PriceFollows ==
    ASSUME Typed, NEW side \in Sides, NEW a \in zset, NEW b \in zset, Before(side, a, b)
    PROVE  /\ Shows(a) \in Nat /\ Shows(b) \in Nat
           /\ IF side = "sell" THEN Shows(a) <= Shows(b) ELSE Shows(b) <= Shows(a)
<1>1. Multiplier \in Nat \ {0}
  BY OrderBookAssumption
<1>2. a.score \in Nat /\ b.score \in Nat
  <2>1. a \in Members /\ b \in Members
    BY DEF Typed
  <2> QED
    BY <2>1 DEF Members
<1>3. PICK x, y, m : x = a.score /\ y = b.score /\ m = Multiplier
  OBVIOUS
<1>4. ASSUME NEW v \in Nat, NEW w \in Nat, v <= w
      PROVE  v \div m <= w \div m
  <2>1. PICK p, q, s, t : p = v \div m /\ q = w \div m /\ s = v % m /\ t = w % m
    OBVIOUS
  <2>2. m \in Nat \ {0}
    BY ONLY <1>1, <1>3
  <2>3. p \in Nat /\ q \in Nat /\ s \in 0 .. m - 1 /\ t \in 0 .. m - 1 /\ v = m * p + s /\ w = m * q + t
    BY ONLY <2>1, <2>2, v \in Nat, w \in Nat, Division
  <2>4. p * m + s <= q * m + t
    <3>1. p * m = m * p /\ q * m = m * q
      BY ONLY <2>2, <2>3
    <3> QED
      BY ONLY <1>4, <2>3, <3>1
  <2>5. p < q \/ (p = q /\ s <= t)
    BY ONLY <2>2, <2>3, <2>4, ScoreOrder
  <2>6. p <= q
    BY ONLY <2>3, <2>5
  <2> QED
    BY ONLY <2>1, <2>6
<1>5. x \in Nat /\ y \in Nat /\ x \div m \in Nat /\ y \div m \in Nat
  BY <1>1, <1>2, <1>3, Division
<1>6. Shows(a) = x \div m /\ Shows(b) = y \div m
  BY ONLY <1>3 DEF Shows, decode_score
<1>7. IF side = "sell" THEN x <= y ELSE y <= x
  BY <1>2, <1>3 DEF Before, Below
<1>8. IF side = "sell" THEN x \div m <= y \div m ELSE y \div m <= x \div m
  BY ONLY <1>4, <1>5, <1>7
<1> QED
  BY ONLY <1>5, <1>6, <1>8

\* ZRANGE lists every member of the side, and each once.
LEMMA RankedAll ==
    ASSUME Typed, Scored, NEW side \in Sides
    PROVE  /\ \A i, j \in 1 .. Cardinality(side_key(side)) : Ranked(side)[i] = Ranked(side)[j] => i = j
           /\ \A e \in side_key(side) : \E i \in 1 .. Cardinality(side_key(side)) : Ranked(side)[i] = e
<1>1. PICK S, n, all : S = side_key(side) /\ n = Cardinality(S) /\ all = Ranked(side)
  OBVIOUS
<1>2. /\ all \in [1 .. n -> S] /\ n \in Nat
      /\ \A i, j \in 1 .. n : i < j => Before(side, all[i], all[j])
  BY <1>1, RankedLists
<1>3. S \subseteq zset /\ IsFiniteSet(S)
  BY <1>1, FS_Subset DEF side_key, Typed
<1>4. ASSUME NEW e \in S
      PROVE  e.id \in Nat /\ e.score \in Nat
  <2>1. e \in Members
    BY <1>3 DEF Typed
  <2> QED
    BY <2>1, OrderBookAssumption DEF Members
<1>5. \A e \in S : ~Before(side, e, e)
  BY <1>4 DEF Before, Below
<1>6. \A i, j \in 1 .. n : all[i] = all[j] => i = j
  <2> SUFFICES ASSUME NEW i \in 1 .. n, NEW j \in 1 .. n, all[i] = all[j], i # j
               PROVE  FALSE
    OBVIOUS
  <2>1. i < j \/ j < i
    OBVIOUS
  <2>2. all[i] \in S /\ all[j] \in S
    BY <1>2
  <2> QED
    BY <1>2, <1>5, <2>1, <2>2
<1>7. all \in Injection(1 .. n, S)
  BY <1>2, <1>6 DEF Injection, IsInjective
<1>8. Cardinality(1 .. n) = Cardinality(S)
  <2>1. Cardinality(1 .. n) = n
    BY <1>2, FS_Interval
  <2> QED
    BY <1>1, <2>1
<1>9. all \in Surjection(1 .. n, S)
  BY <1>3, <1>7, <1>8, FS_Injection
<1>10. \A e \in S : \E i \in 1 .. n : all[i] = e
  BY <1>9 DEF Surjection
<1> QED
  BY <1>1, <1>6, <1>10

\* The sum of a map over a set is the sum of the function.
LEMMA LevelSum ==
    ASSUME Typed, NEW side \in Sides, NEW p, NEW at,
           at = {e \in side_key(side) : decode_score(e.score).price = p /\ hash[e.id] # NoHash}
    PROVE  LevelVolume(side, p) = SumFunctionOnSet([e \in at |-> hash[e.id].visible], at)
<1>1. IsFiniteSet(at)
  <2>1. at \subseteq zset
    BY DEF side_key
  <2> QED
    BY <2>1, FS_Subset DEF Typed
<1> DEFINE f == [e \in at |-> hash[e.id].visible]
           Maps(g) == g = [s \in SUBSET at |-> IF s = {} THEN 0
                                               ELSE hash[First(s).id].visible + g[s \ {First(s)}]]
           iter == CHOOSE g : Maps(g)
<1>2. LevelVolume(side, p) = iter[at]
  BY DEF LevelVolume, MapThenSumSet, MapThenFoldSet, First
<1>3. ASSUME NEW g
      PROVE  Maps(g) <=> IsFold(f, at, g)
  <2>1. \A s \in SUBSET at : s # {} => f[First(s)] = hash[First(s).id].visible
    BY FirstIn
  <2>2. [s \in SUBSET at |-> IF s = {} THEN 0 ELSE hash[First(s).id].visible + g[s \ {First(s)}]] =
            [s \in SUBSET at |-> IF s = {} THEN 0 ELSE f[First(s)] + g[s \ {First(s)}]]
    <3> HIDE DEF f
    <3> QED
      BY <2>1
  <2> HIDE DEF f
  <2> QED
    BY <2>2 DEF IsFold
<1> HIDE DEF f, Maps
<1>4. IsFold(f, at, Fold(f, at))
  BY <1>1, FoldExists
<1>5. Maps(iter)
  <2>1. Maps(Fold(f, at))
    BY <1>3, <1>4
  <2> QED
    BY <2>1
<1> HIDE DEF iter
<1>6. IsFold(f, at, iter)
  BY <1>3, <1>5
<1>7. iter[at] = Fold(f, at)[at]
  BY <1>1, <1>4, <1>6, FoldUnique
<1>8. SumFunctionOnSet(f, at) = Fold(f, at)[at]
  BY SumIsFold
<1> QED
  BY <1>2, <1>7, <1>8 DEF f

\* What the places of a ranked side contribute.
Place(side) == [i \in 1 .. Cardinality(side_key(side)) |-> hash[Ranked(side)[i].id].visible]

\* The places of the orders at a price that have their HASH.
Places(side, p) ==
    {i \in 1 .. Cardinality(side_key(side)) :
        Shows(Ranked(side)[i]) = p /\ hash[Ranked(side)[i].id] # NoHash}

LEMMA PlaceType ==
    ASSUME Typed, Scored, NEW side \in Sides, NEW p
    PROVE  IsFiniteSet(Places(side, p)) /\ \A i \in Places(side, p) : Place(side)[i] \in Nat
<1>1. PICK S, n, all : S = side_key(side) /\ n = Cardinality(S) /\ all = Ranked(side)
  OBVIOUS
<1>2. all \in [1 .. n -> S] /\ n \in Nat
  BY <1>1, RankedLists
<1>3. Places(side, p) = {i \in 1 .. n : Shows(all[i]) = p /\ hash[all[i].id] # NoHash}
  BY <1>1 DEF Places
<1>4. IsFiniteSet(1 .. n) /\ Places(side, p) \subseteq 1 .. n
  BY <1>2, <1>3, FS_Interval
<1>5. IsFiniteSet(Places(side, p))
  BY <1>4, FS_Subset
<1>6. ASSUME NEW i \in Places(side, p)
      PROVE  Place(side)[i] \in Nat
  <2>1. i \in 1 .. n /\ hash[all[i].id] # NoHash
    BY <1>3
  <2>2. all[i] \in zset
    BY <1>1, <1>2, <2>1 DEF side_key
  <2>3. all[i] \in Members
    BY <2>2 DEF Typed
  <2>4. all[i].id \in Ids
    BY <2>3 DEF Members
  <2>5. hash[all[i].id] \in Fields
    BY <2>1, <2>4 DEF Typed
  <2>6. Place(side)[i] = hash[all[i].id].visible
    BY <1>1, <2>1 DEF Place
  <2> QED
    BY <2>5, <2>6 DEF Fields
<1> QED
  BY <1>5, <1>6

\* The volume of a level, place by place.
LEMMA LevelIs ==
    ASSUME Typed, Scored, NEW side \in Sides, NEW p
    PROVE  LevelVolume(side, p) = SumFunctionOnSet(Place(side), Places(side, p))
<1>1. PICK S, n, all : S = side_key(side) /\ n = Cardinality(S) /\ all = Ranked(side)
  OBVIOUS
<1>2. PICK at : at = {e \in side_key(side) : decode_score(e.score).price = p /\ hash[e.id] # NoHash}
  OBVIOUS
<1>3. PICK I : I = Places(side, p)
  OBVIOUS
<1>4. PICK f : f = [e \in at |-> hash[e.id].visible]
  OBVIOUS
<1>5. PICK h : h = Place(side)
  OBVIOUS
<1>6. LevelVolume(side, p) = SumFunctionOnSet(f, at)
  BY <1>2, <1>4, LevelSum
<1>7. I = {i \in 1 .. n : decode_score(all[i].score).price = p /\ hash[all[i].id] # NoHash}
  BY <1>1, <1>3 DEF Places, Shows
<1>8. /\ all \in [1 .. n -> S] /\ \A i, j \in 1 .. n : all[i] = all[j] => i = j
      /\ \A e \in S : \E i \in 1 .. n : all[i] = e
  BY <1>1, RankedLists, RankedAll
<1>9. at = {all[i] : i \in I}
  BY <1>1, <1>2, <1>7, <1>8
<1>10. \A i \in I : h[i] \in Nat
  BY <1>3, <1>5, PlaceType
<1>11. \A i \in I : h[i] = hash[all[i].id].visible
  BY <1>1, <1>5, <1>7 DEF Place
<1>12. \A i \in I : f[all[i]] \in Int /\ h[i] = f[all[i]]
  BY <1>4, <1>9, <1>10, <1>11
<1>13. IsFiniteSet(I)
  BY <1>3, PlaceType
<1>14. \A i, j \in I : all[i] = all[j] => i = j
  BY <1>7, <1>8
<1>15. SumFunctionOnSet(h, I) = SumFunctionOnSet(f, {all[i] : i \in I})
  BY ONLY <1>12, <1>13, <1>14, SumRenamed
<1> QED
  BY ONLY <1>3, <1>5, <1>6, <1>9, <1>15

\* The places of a range that has its HASHes.
Listed(side, list) ==
    LET all == Ranked(side)
        n == Cardinality(side_key(side))
    IN  /\ DOMAIN list = {i \in 1 .. n : i <= Depth /\ hash[all[i].id] # NoHash}
        /\ \A i \in DOMAIN list : /\ list[i].price = Shows(all[i])
                                  /\ list[i].visible = hash[all[i].id].visible

LEMMA ListIs ==
    ASSUME Typed, Scored, NEW side \in Sides
    PROVE  Listed(side, WithHash(BestOf(side, Depth)))
<1>1. PICK n, all : n = Cardinality(side_key(side)) /\ all = Ranked(side)
  OBVIOUS
<1>2. DOMAIN all = 1 .. n
  BY <1>1, RankedLists
<1>3. PICK best : best = BestOf(side, Depth)
  OBVIOUS
<1>4. best = [i \in {k \in 1 .. n : k <= Depth} |-> all[i]]
  BY <1>1, <1>2, <1>3 DEF BestOf
<1>5. PICK D : D = {i \in 1 .. n : i <= Depth /\ hash[all[i].id] # NoHash}
  OBVIOUS
<1>6. D = {k \in DOMAIN best : hash[best[k].id] # NoHash} /\ \A i \in D : best[i] = all[i]
  BY ONLY <1>4, <1>5
<1>7. PICK list : list = WithHash(best)
  OBVIOUS
<1>8. list = [i \in D |-> [id |-> best[i].id, price |-> decode_score(best[i].score).price,
                           qty |-> hash[best[i].id].qty, visible |-> hash[best[i].id].visible]]
  BY ONLY <1>6, <1>7 DEF WithHash
<1>9. DOMAIN list = D
  BY ONLY <1>8
<1>10. ASSUME NEW i \in D
       PROVE  list[i].price = Shows(all[i]) /\ list[i].visible = hash[all[i].id].visible
  <2>1. list[i].price = decode_score(best[i].score).price /\ list[i].visible = hash[best[i].id].visible
    BY ONLY <1>8, i \in D
  <2> QED
    BY ONLY <1>6, i \in D, <2>1 DEF Shows
<1>11. Listed(side, list)
  BY ONLY <1>1, <1>5, <1>9, <1>10 DEF Listed
<1> QED
  BY ONLY <1>3, <1>7, <1>11

\* The volume a list shows at a price.
LEMMA ShownIs ==
    ASSUME Typed, Scored, NEW side \in Sides, NEW list, Listed(side, list),
           NEW p \in DOMAIN Aggregate(side, list)
    PROVE  LET I == {i \in DOMAIN list : list[i].price = p}
           IN  /\ I = {i \in Places(side, p) : i <= Depth}
               /\ Aggregate(side, list)[p] = SumFunctionOnSet(Place(side), I)
<1>1. PICK n, all : n = Cardinality(side_key(side)) /\ all = Ranked(side)
  OBVIOUS
<1>2. /\ DOMAIN list = {i \in 1 .. n : i <= Depth /\ hash[all[i].id] # NoHash}
      /\ \A i \in DOMAIN list : list[i].price = Shows(all[i]) /\ list[i].visible = hash[all[i].id].visible
  BY <1>1 DEF Listed
<1>3. PICK I : I = {i \in DOMAIN list : list[i].price = p}
  OBVIOUS
<1>4. Places(side, p) = {i \in 1 .. n : Shows(all[i]) = p /\ hash[all[i].id] # NoHash}
  BY <1>1 DEF Places
<1>5. I = {i \in Places(side, p) : i <= Depth}
  BY ONLY <1>2, <1>3, <1>4
<1>6. PICK g : g = [i \in I |-> list[i].visible]
  OBVIOUS
<1>7. Aggregate(side, list)[p] = SumFunctionOnSet(g, I)
  <2>1. DOMAIN g = I
    BY ONLY <1>6
  <2>2. Aggregate(side, list)[p] = SumFunction(g)
    BY <1>3, <1>6 DEF Aggregate
  <2> QED
    BY ONLY <2>1, <2>2 DEF SumFunction
<1>8. PICK h : h = Place(side)
  OBVIOUS
<1>9. \A i \in I : g[i] = h[i]
  BY <1>1, <1>2, <1>3, <1>6, <1>8 DEF Place
<1>10. IsFiniteSet(I)
  <2>1. IsFiniteSet(Places(side, p)) /\ I \subseteq Places(side, p)
    BY <1>5, PlaceType
  <2> QED
    BY ONLY <2>1, FS_Subset
<1>11. SumFunctionOnSet(g, I) = SumFunctionOnSet(h, I)
  BY ONLY <1>9, <1>10, SumSame
<1> QED
  BY ONLY <1>3, <1>5, <1>7, <1>8, <1>11

\* A place before another does not show a worse price.
LEMMA PlacesInOrder ==
    ASSUME Typed, Scored, NEW side \in Sides,
           NEW i \in 1 .. Cardinality(side_key(side)), NEW j \in 1 .. Cardinality(side_key(side)),
           IF side = "buy" THEN Shows(Ranked(side)[i]) > Shows(Ranked(side)[j])
                           ELSE Shows(Ranked(side)[i]) < Shows(Ranked(side)[j])
    PROVE  i < j
<1>1. PICK S, n, all : S = side_key(side) /\ n = Cardinality(S) /\ all = Ranked(side)
  OBVIOUS
<1>2. /\ all \in [1 .. n -> S] /\ n \in Nat /\ i \in 1 .. n /\ j \in 1 .. n
      /\ \A v, w \in 1 .. n : v < w => Before(side, all[v], all[w])
  BY <1>1, RankedLists
<1>3. all[i] \in zset /\ all[j] \in zset
  BY <1>1, <1>2 DEF side_key
<1>4. ASSUME j < i
      PROVE  FALSE
  <2>1. Before(side, all[j], all[i])
    BY <1>2, <1>4
  <2>2. /\ Shows(all[i]) \in Nat /\ Shows(all[j]) \in Nat
        /\ IF side = "sell" THEN Shows(all[j]) <= Shows(all[i]) ELSE Shows(all[i]) <= Shows(all[j])
    BY <1>3, <2>1, PriceFollows
  <2> QED
    BY <1>1, <2>2 DEF Sides
<1>5. ASSUME i = j
      PROVE  FALSE
  <2>1. Shows(all[i]) \in Nat
    <3>1. all[i] \in Members /\ Multiplier \in Nat \ {0}
      BY <1>3, OrderBookAssumption DEF Typed
    <3>2. all[i].score \in Nat
      BY <3>1 DEF Members
    <3> QED
      BY <3>1, <3>2, Division DEF Shows, decode_score
  <2> QED
    BY <1>1, <1>5, <2>1
<1> QED
  BY <1>2, <1>4, <1>5

\* SnapshotTrue for one side.
Truthful(side, list) ==
    LET shown == Aggregate(side, list)
        worst == IF side = "buy" THEN Min(DOMAIN shown) ELSE Max(DOMAIN shown)
        inside(p) == IF side = "buy" THEN p > worst ELSE p < worst
    IN  DOMAIN shown # {} =>
        /\ shown[worst] <= LevelVolume(side, worst)
        /\ Cardinality(side_key(side)) <= Depth => shown[worst] = LevelVolume(side, worst)
        /\ \A e \in side_key(side) :
               LET p == decode_score(e.score).price
               IN  inside(p) /\ hash[e.id] # NoHash =>
                      p \in DOMAIN shown /\ shown[p] = LevelVolume(side, p)

\* The worst price is one that is shown.
LEMMA WorstShown ==
    ASSUME Typed, Scored, NEW side \in Sides, NEW list, Listed(side, list), NEW Q,
           Q = DOMAIN Aggregate(side, list), Q # {}
    PROVE  (IF side = "buy" THEN Min(Q) ELSE Max(Q)) \in Q
<1>1. PICK S, n, all : S = side_key(side) /\ n = Cardinality(S) /\ all = Ranked(side)
  OBVIOUS
<1>2. all \in [1 .. n -> S] /\ n \in Nat
  BY <1>1, RankedLists
<1>3. PICK D : D = DOMAIN list
  OBVIOUS
<1>4. D \subseteq 1 .. n /\ \A i \in D : list[i].price = Shows(all[i])
  BY <1>1, <1>3 DEF Listed
<1>5. Q = {list[i].price : i \in D}
  BY <1>3 DEF Aggregate
<1>6. IsFiniteSet(D)
  <2>1. IsFiniteSet(1 .. n)
    BY <1>2, FS_Interval
  <2> QED
    BY ONLY <1>4, <2>1, FS_Subset
<1>7. IsFiniteSet(Q)
  <2>1. PICK f : f = [i \in D |-> list[i].price]
    OBVIOUS
  <2>2. f \in Surjection(D, Q)
    BY ONLY <1>5, <2>1 DEF Surjection
  <2> QED
    BY ONLY <1>6, <2>2, FS_Surjection
<1>8. Q \subseteq Nat
  <2> SUFFICES ASSUME NEW i \in D
               PROVE  Shows(all[i]) \in Nat
    BY <1>4, <1>5
  <2>1. all[i] \in zset
    BY <1>1, <1>2, <1>4 DEF side_key
  <2>2. all[i] \in Members /\ Multiplier \in Nat \ {0}
    BY <2>1, OrderBookAssumption DEF Typed
  <2>3. all[i].score \in Nat
    BY <2>2 DEF Members
  <2> QED
    BY <2>2, <2>3, Division DEF Shows, decode_score
<1>9. Min(Q) \in Q
  <2>1. PICK x \in Q : \A y \in Q : ~(y < x)
    BY <1>8, LeastNumber
  <2>2. \A y \in Q : x <= y
    BY <1>8, <2>1
  <2> QED
    BY <2>2 DEF Min
<1>10. Max(Q) \in Q
  <2>1. Q \subseteq Int
    BY <1>8
  <2>2. PICK x \in Q : \A y \in Q : x >= y
    BY <1>7, <2>1, GreatestNumber
  <2> QED
    BY <2>2 DEF Max
<1> QED
  BY <1>9, <1>10

LEMMA ListTruthful ==
    ASSUME Typed, Scored, NEW side \in Sides, NEW list, Listed(side, list)
    PROVE  Truthful(side, list)
<1>1. PICK S, n, all : S = side_key(side) /\ n = Cardinality(S) /\ all = Ranked(side)
  OBVIOUS
<1>2. PICK shown, Q : shown = Aggregate(side, list) /\ Q = DOMAIN shown
  OBVIOUS
<1>3. PICK worst : worst = IF side = "buy" THEN Min(Q) ELSE Max(Q)
  OBVIOUS
<1> SUFFICES ASSUME Q # {}
             PROVE  /\ shown[worst] <= LevelVolume(side, worst)
                    /\ n <= Depth => shown[worst] = LevelVolume(side, worst)
                    /\ \A e \in S : (IF side = "buy" THEN Shows(e) > worst ELSE Shows(e) < worst)
                                    /\ hash[e.id] # NoHash =>
                                       Shows(e) \in Q /\ shown[Shows(e)] = LevelVolume(side, Shows(e))
  BY <1>1, <1>2, <1>3 DEF Truthful, Shows
<1>4. worst \in Q
  BY <1>2, <1>3, WorstShown
<1>5. /\ DOMAIN list = {i \in 1 .. n : i <= Depth /\ hash[all[i].id] # NoHash}
      /\ \A i \in DOMAIN list : list[i].price = Shows(all[i])
  BY <1>1 DEF Listed
<1>6. Q = {list[i].price : i \in DOMAIN list}
  BY <1>2 DEF Aggregate
<1>7. PICK k \in DOMAIN list : Shows(all[k]) = worst
  BY <1>4, <1>5, <1>6
<1>8. k \in 1 .. n /\ k <= Depth
  BY <1>5
<1>9. n \in Nat /\ Depth \in Nat
  BY <1>1, RankedLists, OrderBookAssumption
<1>10. PICK h : h = Place(side)
  OBVIOUS
<1>11. ASSUME NEW p \in Q
       PROVE  shown[p] = SumFunctionOnSet(h, {i \in Places(side, p) : i <= Depth})
  <2>1. PICK I : I = {i \in DOMAIN list : list[i].price = p}
    OBVIOUS
  <2>2. p \in DOMAIN Aggregate(side, list)
    BY <1>2
  <2>3. I = {i \in Places(side, p) : i <= Depth} /\ Aggregate(side, list)[p] = SumFunctionOnSet(Place(side), I)
    BY <2>1, <2>2, ShownIs
  <2> QED
    BY ONLY <1>2, <1>10, <2>3
<1>12. ASSUME NEW p
       PROVE  /\ LevelVolume(side, p) = SumFunctionOnSet(h, Places(side, p))
              /\ IsFiniteSet(Places(side, p)) /\ \A i \in Places(side, p) : h[i] \in Nat
  BY <1>10, LevelIs, PlaceType
<1>13. ASSUME NEW p \in Q, \A i \in Places(side, p) : i <= Depth
       PROVE  shown[p] = LevelVolume(side, p)
  <2>1. {i \in Places(side, p) : i <= Depth} = Places(side, p)
    BY <1>13
  <2> QED
    BY <1>11, <1>12, <2>1
<1>14. \A p : Places(side, p) = {i \in 1 .. n : Shows(all[i]) = p /\ hash[all[i].id] # NoHash}
  BY <1>1 DEF Places
<1>15. shown[worst] <= LevelVolume(side, worst)
  <2>1. PICK I, J : I = {i \in Places(side, worst) : i <= Depth} /\ J = Places(side, worst)
    OBVIOUS
  <2>2. I \subseteq J /\ IsFiniteSet(J) /\ \A i \in J : h[i] \in Nat
    BY <1>12, <2>1
  <2>3. SumFunctionOnSet(h, I) <= SumFunctionOnSet(h, J)
    BY ONLY <2>2, SumGrows
  <2> QED
    BY <1>4, <1>11, <1>12, <2>1, <2>3
<1>16. ASSUME n <= Depth
       PROVE  shown[worst] = LevelVolume(side, worst)
  <2>1. \A i \in Places(side, worst) : i <= Depth
    BY <1>9, <1>14, <1>16
  <2> QED
    BY <1>4, <1>13, <2>1
<1>17. ASSUME NEW i \in 1 .. n, IF side = "buy" THEN Shows(all[i]) > worst ELSE Shows(all[i]) < worst
       PROVE  i <= Depth
  <2>1. i < k
    BY <1>1, <1>7, <1>8, <1>17, PlacesInOrder
  <2> QED
    BY <1>8, <1>9, <2>1
<1>18. ASSUME NEW e \in S, IF side = "buy" THEN Shows(e) > worst ELSE Shows(e) < worst, hash[e.id] # NoHash
       PROVE  Shows(e) \in Q /\ shown[Shows(e)] = LevelVolume(side, Shows(e))
  <2>1. PICK j \in 1 .. n : all[j] = e
    BY <1>1, RankedAll
  <2>2. j <= Depth
    BY <1>17, <1>18, <2>1
  <2>3. j \in DOMAIN list /\ list[j].price = Shows(e)
    BY <1>5, <1>18, <2>1, <2>2
  <2>4. Shows(e) \in Q
    BY <1>6, <2>3
  <2>5. \A i \in Places(side, Shows(e)) : i <= Depth
    BY <1>14, <1>17, <1>18
  <2> QED
    BY <1>13, <2>4, <2>5
<1> QED
  BY <1>15, <1>16, <1>18

\* A snapshot that no write disturbed shows the volume of every level within its
\* depth, and no level is missing in between (get_book_snapshot, _aggregate).
THEOREM SnapshotsTrue == Spec => []SnapshotTrue
<1>1. Init => Snaps
  <2> SUFFICES ASSUME Init, NEW r \in Readers
               PROVE  Snap(reader[r], Bids, Asks, BidList, AskList)
    BY DEF Snaps
  <2>1. reader[r] = NoRead
    BY DEF Init
  <2> QED
    BY <2>1 DEF Snap, NoRead
<1>2. Snaps /\ Ind /\ [Next]_vars => Snaps'
  BY SnapsNext
<1>3. ASSUME Ind, Snaps, NEW r \in Readers, reader[r].pc = "done", reader[r].kind = "snapshot", reader[r].clean
      PROVE  Truthful("buy", reader[r].list) /\ Truthful("sell", reader[r].other)
  <2>1. Typed /\ Scored /\ "buy" \in Sides /\ "sell" \in Sides
    BY <1>3 DEF Ind, Sides
  <2>2. reader[r].list = WithHash(BestOf("buy", Depth)) /\ reader[r].other = WithHash(BestOf("sell", Depth))
    BY <1>3 DEF Snaps, Snap, BidList, AskList, Bids, Asks
  <2>3. Listed("buy", reader[r].list) /\ Listed("sell", reader[r].other)
    BY <2>1, <2>2, ListIs
  <2> QED
    BY <2>1, <2>3, ListTruthful
<1>4. Ind /\ Snaps => SnapshotTrue
  <2>1. ASSUME NEW r \in Readers, NEW side \in {"buy", "sell"},
               Truthful("buy", reader[r].list) /\ Truthful("sell", reader[r].other)
        PROVE  Truthful(side, IF side = "buy" THEN reader[r].list ELSE reader[r].other)
    BY <2>1
  <2>2. ASSUME Ind, Snaps
        PROVE  \A r \in Readers : reader[r].pc = "done" /\ reader[r].kind = "snapshot" /\ reader[r].clean =>
                   \A side \in {"buy", "sell"} :
                       Truthful(side, IF side = "buy" THEN reader[r].list ELSE reader[r].other)
    BY <1>3, <2>1, <2>2
  <2> QED
    BY ONLY <2>2, Zenon DEF SnapshotTrue, Truthful
<1> QED
  BY <1>1, <1>2, <1>4, BookConsistent, PTL DEF Spec
=============================================================================
