------------------------ MODULE MatchingEngineProofs ------------------------
(***************************************************************************)
(* MatchingEngine, for any prices, quantities and capacities: the book is  *)
(* well formed between any two trades, the binary search finds the level   *)
(* it is asked for, every trade is with the order that comes first in      *)
(* price-time priority, and the loop as a whole computes the closed form   *)
(* of PriceTime.                                                           *)
(***************************************************************************)
EXTENDS MatchingEngine, FiniteLemmas, SequenceTheorems

-----------------------------------------------------------------------------
(* Sequences with one element more or less.                                *)

\* RemoveAt takes out one element and keeps the others in order.
LEMMA RemoveAtIs ==
    ASSUME NEW S, NEW s \in Seq(S), NEW i \in 1 .. Len(s)
    PROVE  /\ RemoveAt(s, i) \in Seq(S)
           /\ Len(RemoveAt(s, i)) = Len(s) - 1
           /\ \A j \in 1 .. Len(s) - 1 : RemoveAt(s, i)[j] = IF j < i THEN s[j] ELSE s[j + 1]
<1> DEFINE a == SubSeq(s, 1, i - 1)
           b == SubSeq(s, i + 1, Len(s))
<1>1. Len(s) \in Nat /\ \A j \in 1 .. Len(s) : s[j] \in S
  BY ElementOfSeq, LenProperties
<1>2. /\ a \in Seq(S) /\ Len(a) = i - 1
      /\ \A j \in 1 .. i - 1 : a[j] = s[j]
  <2>1. /\ a \in Seq(S) /\ Len(a) = IF 1 <= i - 1 THEN (i - 1) - 1 + 1 ELSE 0
        /\ \A j \in 1 .. (i - 1) - 1 + 1 : a[j] = s[1 + j - 1]
    BY <1>1, SubSeqProperties
  <2> QED
    BY <2>1, <1>1
<1>3. /\ b \in Seq(S) /\ Len(b) = Len(s) - i
      /\ \A j \in 1 .. Len(s) - i : b[j] = s[i + j]
  <2>1. /\ b \in Seq(S) /\ Len(b) = IF i + 1 <= Len(s) THEN Len(s) - (i + 1) + 1 ELSE 0
        /\ \A j \in 1 .. Len(s) - (i + 1) + 1 : b[j] = s[(i + 1) + j - 1]
    BY <1>1, SubSeqProperties
  <2> QED
    BY <2>1, <1>1
<1>4. /\ a \o b \in Seq(S) /\ Len(a \o b) = Len(a) + Len(b)
      /\ \A j \in 1 .. Len(a) + Len(b) : (a \o b)[j] = IF j <= Len(a) THEN a[j] ELSE b[j - Len(a)]
  BY <1>2, <1>3, ConcatProperties
<1>5. RemoveAt(s, i) = a \o b
  BY DEF RemoveAt
<1> HIDE DEF a, b
<1>6. ASSUME NEW j \in 1 .. Len(s) - 1
      PROVE  (a \o b)[j] = IF j < i THEN s[j] ELSE s[j + 1]
  <2>1. CASE j < i
    BY <1>1, <1>2, <1>3, <1>4, <2>1
  <2>2. CASE ~ (j < i)
    <3>1. j - Len(a) \in 1 .. Len(s) - i /\ i + (j - Len(a)) = j + 1
      BY <1>1, <1>2, <2>2
    <3>2. j \in 1 .. Len(a) + Len(b) /\ ~ (j <= Len(a))
      BY <1>1, <1>2, <1>3, <2>2
    <3>3. (a \o b)[j] = b[j - Len(a)]
      BY <1>4, <3>2
    <3> QED
      BY <1>3, <2>2, <3>1, <3>3
  <2> QED
    BY <2>1, <2>2
<1> QED
  BY <1>1, <1>2, <1>3, <1>4, <1>5, <1>6

\* t is s with e at place i.
HasInserted(S, s, i, e, t) ==
    /\ t \in Seq(S) /\ Len(t) = Len(s) + 1
    /\ \A j \in 1 .. Len(s) + 1 : t[j] = IF j < i THEN s[j] ELSE IF j = i THEN e ELSE s[j - 1]

\* InsertAt puts one element in and keeps the others in order.
LEMMA InsertAtIs ==
    ASSUME NEW S, NEW s \in Seq(S), NEW e \in S, NEW i \in 1 .. Len(s) + 1
    PROVE  HasInserted(S, s, i, e, InsertAt(s, i, e))
<1> DEFINE a == SubSeq(s, 1, i - 1)
           b == SubSeq(s, i, Len(s))
           ae == a \o <<e>>
<1>1. Len(s) \in Nat /\ \A j \in 1 .. Len(s) : s[j] \in S
  BY ElementOfSeq, LenProperties
<1>2. /\ a \in Seq(S) /\ Len(a) = i - 1
      /\ \A j \in 1 .. i - 1 : a[j] = s[j]
  <2>1. /\ a \in Seq(S) /\ Len(a) = IF 1 <= i - 1 THEN (i - 1) - 1 + 1 ELSE 0
        /\ \A j \in 1 .. (i - 1) - 1 + 1 : a[j] = s[1 + j - 1]
    BY <1>1, SubSeqProperties
  <2> QED
    BY <2>1, <1>1
<1>3. /\ b \in Seq(S) /\ Len(b) = Len(s) - i + 1
      /\ \A j \in 1 .. Len(s) - i + 1 : b[j] = s[i + j - 1]
  <2>1. /\ b \in Seq(S) /\ Len(b) = IF i <= Len(s) THEN Len(s) - i + 1 ELSE 0
        /\ \A j \in 1 .. Len(s) - i + 1 : b[j] = s[i + j - 1]
    BY <1>1, SubSeqProperties
  <2> QED
    BY <2>1, <1>1
<1>4. <<e>> \in Seq(S) /\ Len(<<e>>) = 1 /\ <<e>>[1] = e
  OBVIOUS
<1> HIDE DEF a, b
<1>5. /\ ae \in Seq(S) /\ Len(ae) = i
      /\ \A j \in 1 .. i : ae[j] = IF j < i THEN s[j] ELSE e
  <2>1. /\ ae \in Seq(S) /\ Len(ae) = Len(a) + Len(<<e>>)
        /\ \A j \in 1 .. Len(a) + Len(<<e>>) : ae[j] = IF j <= Len(a) THEN a[j] ELSE <<e>>[j - Len(a)]
    BY <1>2, <1>4, ConcatProperties
  <2> HIDE DEF ae
  <2> QED
    BY <2>1, <1>1, <1>2, <1>4
<1> HIDE DEF ae
<1>6. /\ ae \o b \in Seq(S) /\ Len(ae \o b) = Len(ae) + Len(b)
      /\ \A j \in 1 .. Len(ae) + Len(b) : (ae \o b)[j] = IF j <= Len(ae) THEN ae[j] ELSE b[j - Len(ae)]
  BY <1>3, <1>5, ConcatProperties
<1>7. InsertAt(s, i, e) = ae \o b
  BY DEF InsertAt, ae, a, b
<1>8. ASSUME NEW j \in 1 .. Len(s) + 1
      PROVE  (ae \o b)[j] = IF j < i THEN s[j] ELSE IF j = i THEN e ELSE s[j - 1]
  <2>1. CASE j <= i
    BY <1>1, <1>3, <1>5, <1>6, <2>1
  <2>2. CASE ~ (j <= i)
    <3>1. j - Len(ae) \in 1 .. Len(s) - i + 1 /\ i + (j - Len(ae)) - 1 = j - 1
      BY <1>1, <1>5, <2>2
    <3>2. PICK d : d = j - Len(ae)
      OBVIOUS
    <3>3. d \in 1 .. Len(s) - i + 1 /\ i + d - 1 = j - 1
      BY ONLY <3>1, <3>2
    <3>4. b[d] = s[j - 1]
      BY ONLY <1>3, <3>3
    <3>5. j \in 1 .. Len(ae) + Len(b) /\ ~ (j <= Len(ae)) /\ ~ (j < i) /\ j # i
      BY ONLY <1>1, <1>3, <1>5, <1>8, <2>2, i \in 1 .. Len(s) + 1
    <3>6. (ae \o b)[j] = b[d]
      BY ONLY <1>6, <3>2, <3>5
    <3> QED
      BY ONLY <3>4, <3>5, <3>6
  <2> QED
    BY <2>1, <2>2
<1>9. ae \o b \in Seq(S) /\ Len(ae \o b) = Len(s) + 1
  BY <1>1, <1>3, <1>5, <1>6
<1> QED
  BY ONLY <1>7, <1>8, <1>9 DEF HasInserted

-----------------------------------------------------------------------------
(* What the orders of a level still have to give.                          *)

Total(queue) == SumFunction([k \in DOMAIN queue |-> queue[k].rem])

LEMMA TotalIs ==
    ASSUME NEW queue \in Seq(Node), NEW f, f = [k \in 1 .. Len(queue) |-> queue[k].rem]
    PROVE  /\ Total(queue) = SumFunctionOnSet(f, 1 .. Len(queue))
           /\ Len(queue) \in Nat /\ IsFiniteSet(1 .. Len(queue))
           /\ \A k \in 1 .. Len(queue) : f[k] = queue[k].rem /\ f[k] \in Nat
<1>1. Len(queue) \in Nat /\ DOMAIN queue = 1 .. Len(queue)
  BY LenProperties
<1>2. \A k \in 1 .. Len(queue) : queue[k] \in Node
  BY ElementOfSeq
<1>3. Total(queue) = SumFunction(f) /\ DOMAIN f = 1 .. Len(queue)
  BY <1>1 DEF Total
<1>4. IsFiniteSet(1 .. Len(queue))
  BY <1>1, FS_Interval
<1> QED
  BY <1>1, <1>2, <1>3, <1>4 DEF SumFunction, Node

LEMMA TotalEmpty == Total(<<>>) = 0
<1>1. PICK f : f = [k \in 1 .. Len(<<>>) |-> <<>>[k].rem]
  OBVIOUS
<1>2. <<>> \in Seq(Node) /\ 1 .. Len(<<>>) = {}
  OBVIOUS
<1> QED
  BY <1>1, <1>2, TotalIs, SumEmpty

LEMMA TotalAppend ==
    ASSUME NEW queue \in Seq(Node), NEW node \in Node
    PROVE  Total(Append(queue, node)) = Total(queue) + node.rem
<1>1. PICK q : q = Append(queue, node)
  OBVIOUS
<1>2. PICK n : n = Len(queue)
  OBVIOUS
<1>3. /\ q \in Seq(Node) /\ Len(q) = n + 1 /\ n \in Nat /\ q[n + 1] = node
      /\ \A k \in 1 .. n : q[k] = queue[k]
  BY <1>1, <1>2, AppendProperties, LenProperties
<1>4. PICK f : f = [k \in 1 .. Len(queue) |-> queue[k].rem]
  OBVIOUS
<1>5. PICK g : g = [k \in 1 .. Len(q) |-> q[k].rem]
  OBVIOUS
<1>6. /\ Total(queue) = SumFunctionOnSet(f, 1 .. n)
      /\ IsFiniteSet(1 .. n)
      /\ \A k \in 1 .. n : f[k] = queue[k].rem /\ f[k] \in Nat
  BY <1>2, <1>4, TotalIs
<1>7. /\ Total(q) = SumFunctionOnSet(g, 1 .. n + 1)
      /\ IsFiniteSet(1 .. n + 1)
      /\ \A k \in 1 .. n + 1 : g[k] = q[k].rem /\ g[k] \in Nat
  <2>1. /\ Total(q) = SumFunctionOnSet(g, 1 .. Len(q))
        /\ IsFiniteSet(1 .. Len(q))
        /\ \A k \in 1 .. Len(q) : g[k] = q[k].rem /\ g[k] \in Nat
    BY <1>3, <1>5, TotalIs
  <2> QED
    BY <2>1, <1>3
<1>8. n + 1 \in 1 .. n + 1 /\ (1 .. n + 1) \ {n + 1} = 1 .. n
  BY <1>3
<1>9. SumFunctionOnSet(g, 1 .. n + 1) = g[n + 1] + SumFunctionOnSet(g, (1 .. n + 1) \ {n + 1})
  <2>1. \A k \in 1 .. n + 1 : g[k] \in Int
    BY <1>7
  <2> QED
    BY ONLY <1>7, <1>8, <2>1, SumRemove
<1>10. SumFunctionOnSet(f, 1 .. n) = SumFunctionOnSet(g, 1 .. n)
  <2>1. \A k \in 1 .. n : k \in 1 .. n + 1
    BY <1>3
  <2>2. \A k \in 1 .. n : f[k] = g[k]
    BY <1>3, <1>6, <1>7, <2>1
  <2> QED
    BY ONLY <1>6, <2>2, SumSame
<1>11. g[n + 1] = node.rem /\ node.rem \in Int
  BY <1>3, <1>7 DEF Node
<1>12. Total(queue) \in Int
  <2>1. \A k \in 1 .. n : f[k] \in Int
    BY <1>6
  <2> QED
    BY ONLY <1>6, <2>1, SumInt
<1>13. Total(q) = node.rem + Total(queue)
  BY <1>6, <1>7, <1>8, <1>9, <1>10, <1>11
<1> QED
  BY <1>1, <1>11, <1>12, <1>13

LEMMA TotalInt == ASSUME NEW queue \in Seq(Node) PROVE Total(queue) \in Nat
<1>1. PICK f : f = [k \in 1 .. Len(queue) |-> queue[k].rem]
  OBVIOUS
<1>2. /\ Total(queue) = SumFunctionOnSet(f, 1 .. Len(queue))
      /\ IsFiniteSet(1 .. Len(queue))
      /\ \A k \in 1 .. Len(queue) : f[k] \in Nat
  BY <1>1, TotalIs
<1> QED
  BY <1>2, SumNat

LEMMA TotalRemove ==
    ASSUME NEW queue \in Seq(Node), NEW i \in 1 .. Len(queue)
    PROVE  Total(RemoveAt(queue, i)) = Total(queue) - queue[i].rem
<1>1. PICK q : q = RemoveAt(queue, i)
  OBVIOUS
<1>2. PICK n : n = Len(queue)
  OBVIOUS
<1>3. /\ q \in Seq(Node) /\ Len(q) = n - 1 /\ n \in Nat
      /\ \A k \in 1 .. n - 1 : q[k] = IF k < i THEN queue[k] ELSE queue[k + 1]
  BY <1>1, <1>2, RemoveAtIs, LenProperties
<1>4. PICK f : f = [k \in 1 .. Len(queue) |-> queue[k].rem]
  OBVIOUS
<1>5. PICK h : h = [k \in 1 .. Len(q) |-> q[k].rem]
  OBVIOUS
<1>6. /\ Total(queue) = SumFunctionOnSet(f, 1 .. n)
      /\ IsFiniteSet(1 .. n)
      /\ \A k \in 1 .. n : f[k] = queue[k].rem /\ f[k] \in Nat
  BY <1>2, <1>4, TotalIs
<1>7. /\ Total(q) = SumFunctionOnSet(h, 1 .. n - 1)
      /\ IsFiniteSet(1 .. n - 1)
      /\ \A k \in 1 .. n - 1 : h[k] = q[k].rem /\ h[k] \in Nat
  <2>1. /\ Total(q) = SumFunctionOnSet(h, 1 .. Len(q))
        /\ IsFiniteSet(1 .. Len(q))
        /\ \A k \in 1 .. Len(q) : h[k] = q[k].rem /\ h[k] \in Nat
    BY <1>3, <1>5, TotalIs
  <2> QED
    BY <2>1, <1>3
<1>8. PICK g : g = [k \in 1 .. n - 1 |-> IF k < i THEN k ELSE k + 1]
  OBVIOUS
<1>9. \A k \in 1 .. n - 1 : g[k] = IF k < i THEN k ELSE k + 1
  BY <1>8
<1>10. {g[k] : k \in 1 .. n - 1} = (1 .. n) \ {i}
  <2>1. \A k \in 1 .. n - 1 : g[k] \in (1 .. n) \ {i}
    BY <1>2, <1>3, <1>9
  <2>2. ASSUME NEW m \in (1 .. n) \ {i} PROVE \E k \in 1 .. n - 1 : g[k] = m
    <3>1. CASE m < i
      <4>1. m \in 1 .. n - 1 /\ g[m] = m
        BY <1>2, <1>3, <1>9, <3>1
      <4> QED
        BY <4>1
    <3>2. CASE ~ (m < i)
      <4>1. m - 1 \in 1 .. n - 1 /\ g[m - 1] = m
        BY <1>2, <1>3, <1>9, <3>2
      <4> QED
        BY <4>1
    <3> QED
      BY <3>1, <3>2
  <2> QED
    BY <2>1, <2>2
<1>11. \A x, y \in 1 .. n - 1 : g[x] = g[y] => x = y
  BY <1>3, <1>9
<1>12. \A x \in 1 .. n - 1 : f[g[x]] \in Int /\ h[x] = f[g[x]]
  <2>1. \A x \in 1 .. n - 1 : g[x] \in 1 .. n /\ q[x] = queue[g[x]]
    BY <1>2, <1>3, <1>9
  <2> QED
    BY <1>6, <1>7, <2>1
<1>13. SumFunctionOnSet(h, 1 .. n - 1) = SumFunctionOnSet(f, {g[k] : k \in 1 .. n - 1})
  <2>1. PICK D : D = 1 .. n - 1
    OBVIOUS
  <2>2. /\ IsFiniteSet(D)
        /\ \A x, y \in D : g[x] = g[y] => x = y
        /\ \A x \in D : f[g[x]] \in Int /\ h[x] = f[g[x]]
    BY <1>7, <1>11, <1>12, <2>1
  <2>3. SumFunctionOnSet(h, D) = SumFunctionOnSet(f, {g[k] : k \in D})
    BY ONLY <2>2, SumRenamed
  <2> QED
    BY ONLY <2>1, <2>3
<1>14. SumFunctionOnSet(f, 1 .. n) = f[i] + SumFunctionOnSet(f, (1 .. n) \ {i})
  <2>1. PICK D : D = 1 .. n
    OBVIOUS
  <2>2. PICK a : a = i
    OBVIOUS
  <2>3. a \in D /\ IsFiniteSet(D) /\ \A k \in D : f[k] \in Int
    BY <1>2, <1>6, <2>1, <2>2
  <2>4. SumFunctionOnSet(f, D) = f[a] + SumFunctionOnSet(f, D \ {a})
    BY ONLY <2>3, SumRemove
  <2> QED
    BY ONLY <2>1, <2>2, <2>4
<1>15. Total(queue) \in Int /\ Total(q) \in Int /\ f[i] = queue[i].rem /\ f[i] \in Int
  BY <1>2, <1>3, <1>6, TotalInt
<1>16. Total(q) = SumFunctionOnSet(f, (1 .. n) \ {i})
  BY <1>7, <1>10, <1>13
<1>17. Total(queue) = queue[i].rem + Total(q)
  BY <1>6, <1>14, <1>15, <1>16
<1> QED
  BY <1>1, <1>15, <1>17

\* One order of the level gives something up.
LEMMA TotalChange ==
    ASSUME NEW queue \in Seq(Node), NEW q \in Seq(Node), Len(q) = Len(queue), NEW i \in 1 .. Len(queue),
           \A k \in 1 .. Len(queue) : k # i => q[k] = queue[k]
    PROVE  Total(q) = (Total(queue) + q[i].rem) - queue[i].rem
<1>1. PICK n : n = Len(queue)
  OBVIOUS
<1>2. PICK f : f = [k \in 1 .. Len(queue) |-> queue[k].rem]
  OBVIOUS
<1>3. PICK g : g = [k \in 1 .. Len(q) |-> q[k].rem]
  OBVIOUS
<1>4. /\ Total(queue) = SumFunctionOnSet(f, 1 .. n)
      /\ IsFiniteSet(1 .. n)
      /\ \A k \in 1 .. n : f[k] = queue[k].rem /\ f[k] \in Nat
  BY <1>1, <1>2, TotalIs
<1>5. /\ Total(q) = SumFunctionOnSet(g, 1 .. n)
      /\ \A k \in 1 .. n : g[k] = q[k].rem /\ g[k] \in Nat
  <2>1. /\ Total(q) = SumFunctionOnSet(g, 1 .. Len(q))
        /\ \A k \in 1 .. Len(q) : g[k] = q[k].rem /\ g[k] \in Nat
    BY <1>3, TotalIs
  <2> QED
    BY <1>1, <2>1
<1>6. /\ i \in 1 .. n
      /\ \A k \in 1 .. n : f[k] \in Int /\ g[k] \in Int
      /\ \A k \in (1 .. n) \ {i} : g[k] = f[k]
  BY <1>1, <1>4, <1>5
<1>7. SumFunctionOnSet(g, 1 .. n) = SumFunctionOnSet(f, 1 .. n) + g[i] - f[i]
  <2>1. PICK D : D = 1 .. n
    OBVIOUS
  <2>2. PICK a : a = i
    OBVIOUS
  <2>3. /\ a \in D /\ IsFiniteSet(D)
        /\ \A k \in D : f[k] \in Int /\ g[k] \in Int
        /\ \A k \in D \ {a} : g[k] = f[k]
    BY <1>4, <1>6, <2>1, <2>2
  <2>4. SumFunctionOnSet(g, D) = SumFunctionOnSet(f, D) + g[a] - f[a]
    BY ONLY <2>3, SumChange
  <2> QED
    BY ONLY <2>1, <2>2, <2>4
<1>8. Total(queue) \in Int
  BY TotalInt
<1> QED
  BY <1>1, <1>4, <1>5, <1>6, <1>7, <1>8

-----------------------------------------------------------------------------
(* The binary search.                                                      *)

\* p is the list of the n prices of a side; v is the place of `price` between
\* lo and hi, or 0.
Ranked(side, p, n) == \A i, j \in 1 .. n : i < j => Better(side, p[i], p[j])
Finds(p, price, lo, hi, v) ==
    IF v = 0 THEN \A k \in lo .. hi : p[k] # price ELSE v \in lo .. hi /\ p[v] = price

Ranges(n) == (1 .. n + 1) \X (0 .. n)
Middle(r) == (r[1] + r[2]) \div 2
IsSearch(side, p, price, n, f) ==
    f = [r \in Ranges(n) |->
            IF r[1] > r[2] THEN 0
            ELSE IF p[Middle(r)] = price THEN Middle(r)
            ELSE IF Better(side, p[Middle(r)], price) THEN f[<<Middle(r) + 1, r[2]>>]
            ELSE f[<<r[1], Middle(r) - 1>>]]

LEMMA MiddleIn ==
    ASSUME NEW n \in Nat, NEW r \in Ranges(n), r[1] <= r[2]
    PROVE  /\ Middle(r) \in r[1] .. r[2] /\ Middle(r) \in 1 .. n
           /\ <<Middle(r) + 1, r[2]>> \in Ranges(n) /\ <<r[1], Middle(r) - 1>> \in Ranges(n)
           /\ r[1] \in 1 .. n /\ r[2] \in 1 .. n
<1>1. r[1] \in 1 .. n + 1 /\ r[2] \in 0 .. n
  BY DEF Ranges
<1>2. Middle(r) \in r[1] .. r[2]
  BY <1>1 DEF Middle
<1>3. Middle(r) \in 1 .. n /\ Middle(r) + 1 \in 1 .. n + 1 /\ Middle(r) - 1 \in 0 .. n
  BY <1>1, <1>2
<1> QED
  BY <1>1, <1>2, <1>3 DEF Ranges

LEMMA FindsOne ==
    ASSUME NEW side \in Sides, NEW n \in Nat, NEW p, \A k \in 1 .. n : p[k] \in Nat, Ranked(side, p, n),
           NEW price \in Nat, NEW r \in Ranges(n),
           NEW v, NEW w, Finds(p, price, r[1], r[2], v), Finds(p, price, r[1], r[2], w)
    PROVE  v = w
<1>1. r[1] \in 1 .. n + 1 /\ r[2] \in 0 .. n
  BY DEF Ranges
<1>2. CASE v = 0 \/ w = 0
  BY <1>2 DEF Finds
<1>3. CASE v # 0 /\ w # 0
  <2>1. v \in 1 .. n /\ w \in 1 .. n /\ p[v] = p[w]
    BY <1>1, <1>3 DEF Finds
  <2>2. v < w => Better(side, p[v], p[w])
    BY <2>1 DEF Ranked
  <2>3. w < v => Better(side, p[w], p[v])
    BY <2>1 DEF Ranked
  <2>4. p[v] \in Nat
    BY <2>1
  <2> QED
    BY <2>1, <2>2, <2>3, <2>4 DEF Better
<1> QED
  BY <1>2, <1>3

\* A turn of the search narrows the range without losing the price.
LEMMA FindsStep ==
    ASSUME NEW side \in Sides, NEW n \in Nat, NEW p, \A k \in 1 .. n : p[k] \in Nat, Ranked(side, p, n),
           NEW price \in Nat, NEW r \in Ranges(n), NEW v,
           IF r[1] > r[2] THEN v = 0
           ELSE IF p[Middle(r)] = price THEN v = Middle(r)
           ELSE IF Better(side, p[Middle(r)], price) THEN Finds(p, price, Middle(r) + 1, r[2], v)
           ELSE Finds(p, price, r[1], Middle(r) - 1, v)
    PROVE  Finds(p, price, r[1], r[2], v)
<1>1. r[1] \in 1 .. n + 1 /\ r[2] \in 0 .. n
  BY DEF Ranges
<1>2. CASE r[1] > r[2]
  BY <1>1, <1>2 DEF Finds
<1>3. CASE r[1] <= r[2]
  <2>1. PICK m : m = Middle(r)
    OBVIOUS
  <2>2. m \in r[1] .. r[2] /\ m \in 1 .. n
    BY <1>3, <2>1, MiddleIn
  <2>3. IF p[m] = price THEN v = m
        ELSE IF Better(side, p[m], price) THEN Finds(p, price, m + 1, r[2], v)
        ELSE Finds(p, price, r[1], m - 1, v)
    BY <1>1, <1>3, <2>1
  <2>4. CASE p[m] = price
    BY <2>2, <2>3, <2>4 DEF Finds
  <2>5. CASE p[m] # price /\ Better(side, p[m], price)
    <3>1. Finds(p, price, m + 1, r[2], v)
      BY <2>3, <2>5
    <3>2. ASSUME NEW k \in r[1] .. m PROVE p[k] # price
      <4>1. k \in 1 .. n /\ (k = m \/ k < m)
        BY <1>1, <2>2
      <4>2. k = m \/ Better(side, p[k], p[m])
        BY <2>2, <4>1 DEF Ranked
      <4> QED
        BY <2>2, <2>5, <4>1, <4>2 DEF Better
    <3>3. CASE v = 0
      <4>1. \A k \in m + 1 .. r[2] : p[k] # price
        BY <3>1, <3>3 DEF Finds
      <4>2. \A k \in r[1] .. r[2] : k \in r[1] .. m \/ k \in m + 1 .. r[2]
        BY <1>1, <2>2
      <4> QED
        BY <3>2, <3>3, <4>1, <4>2 DEF Finds
    <3>4. CASE v # 0
      <4>1. v \in m + 1 .. r[2] /\ p[v] = price
        BY <3>1, <3>4 DEF Finds
      <4>2. v \in r[1] .. r[2]
        BY <1>1, <2>2, <4>1
      <4> QED
        BY <3>4, <4>1, <4>2 DEF Finds
    <3> QED
      BY <3>3, <3>4
  <2>6. CASE p[m] # price /\ ~Better(side, p[m], price)
    <3>1. Finds(p, price, r[1], m - 1, v)
      BY <2>3, <2>6
    <3>2. ASSUME NEW k \in m .. r[2] PROVE p[k] # price
      <4>1. k \in 1 .. n /\ (k = m \/ m < k)
        BY <1>1, <2>2
      <4>2. k = m \/ Better(side, p[m], p[k])
        BY <2>2, <4>1 DEF Ranked
      <4> QED
        BY <2>2, <2>6, <4>1, <4>2 DEF Better
    <3>3. CASE v = 0
      <4>1. \A k \in r[1] .. m - 1 : p[k] # price
        BY <3>1, <3>3 DEF Finds
      <4>2. \A k \in r[1] .. r[2] : k \in m .. r[2] \/ k \in r[1] .. m - 1
        BY <1>1, <2>2
      <4> QED
        BY <3>2, <3>3, <4>1, <4>2 DEF Finds
    <3>4. CASE v # 0
      <4>1. v \in r[1] .. m - 1 /\ p[v] = price
        BY <3>1, <3>4 DEF Finds
      <4>2. v \in r[1] .. r[2]
        BY <1>1, <2>2, <4>1
      <4> QED
        BY <3>4, <4>1, <4>2 DEF Finds
    <3> QED
      BY <3>3, <3>4
  <2> QED
    BY <2>4, <2>5, <2>6
<1> QED
  BY <1>1, <1>2, <1>3

\* The recursion has a solution: the place itself.
LEMMA SearchExists ==
    ASSUME NEW side \in Sides, NEW n \in Nat, NEW p, \A k \in 1 .. n : p[k] \in Nat, Ranked(side, p, n),
           NEW price \in Nat
    PROVE  \E f : IsSearch(side, p, price, n, f)
<1> DEFINE place(r) == CHOOSE v : Finds(p, price, r[1], r[2], v)
<1>1. PICK g : g = [r \in Ranges(n) |-> place(r)]
  OBVIOUS
<1>2. ASSUME NEW r \in Ranges(n)
      PROVE  g[r] = place(r) /\ Finds(p, price, r[1], r[2], g[r])
  <2>1. \E v : Finds(p, price, r[1], r[2], v)
    <3>1. r[1] \in 1 .. n + 1 /\ r[2] \in 0 .. n
      BY DEF Ranges
    <3>2. CASE \E k \in r[1] .. r[2] : p[k] = price
      <4>1. PICK k \in r[1] .. r[2] : p[k] = price
        BY <3>2
      <4>2. k # 0
        BY <3>1
      <4>3. Finds(p, price, r[1], r[2], k)
        BY <4>1, <4>2 DEF Finds
      <4> QED
        BY <4>3
    <3>3. CASE ~ \E k \in r[1] .. r[2] : p[k] = price
      <4>1. Finds(p, price, r[1], r[2], 0)
        BY <3>3 DEF Finds
      <4> QED
        BY <4>1
    <3> QED
      BY <3>2, <3>3
  <2>2. Finds(p, price, r[1], r[2], place(r))
    BY <2>1
  <2>3. g[r] = place(r)
    BY <1>1
  <2> QED
    BY <2>2, <2>3
<1>3. ASSUME NEW r \in Ranges(n)
      PROVE  g[r] = IF r[1] > r[2] THEN 0
                    ELSE IF p[Middle(r)] = price THEN Middle(r)
                    ELSE IF Better(side, p[Middle(r)], price) THEN g[<<Middle(r) + 1, r[2]>>]
                    ELSE g[<<r[1], Middle(r) - 1>>]
  <2>1. PICK v : v = IF r[1] > r[2] THEN 0
                     ELSE IF p[Middle(r)] = price THEN Middle(r)
                     ELSE IF Better(side, p[Middle(r)], price) THEN g[<<Middle(r) + 1, r[2]>>]
                     ELSE g[<<r[1], Middle(r) - 1>>]
    OBVIOUS
  <2>2. r[1] \in Int /\ r[2] \in Int
    BY DEF Ranges
  <2>3. r[1] <= r[2] => Finds(p, price, Middle(r) + 1, r[2], g[<<Middle(r) + 1, r[2]>>])
    <3> SUFFICES ASSUME r[1] <= r[2] PROVE Finds(p, price, Middle(r) + 1, r[2], g[<<Middle(r) + 1, r[2]>>])
      OBVIOUS
    <3>1. PICK t : t = <<Middle(r) + 1, r[2]>>
      OBVIOUS
    <3>2. t \in Ranges(n) /\ t[1] = Middle(r) + 1 /\ t[2] = r[2]
      BY <3>1, MiddleIn
    <3>3. Finds(p, price, t[1], t[2], g[t])
      BY <3>2, <1>2
    <3> QED
      BY ONLY <3>1, <3>2, <3>3
  <2>4. r[1] <= r[2] => Finds(p, price, r[1], Middle(r) - 1, g[<<r[1], Middle(r) - 1>>])
    <3> SUFFICES ASSUME r[1] <= r[2] PROVE Finds(p, price, r[1], Middle(r) - 1, g[<<r[1], Middle(r) - 1>>])
      OBVIOUS
    <3>1. PICK t : t = <<r[1], Middle(r) - 1>>
      OBVIOUS
    <3>2. t \in Ranges(n) /\ t[1] = r[1] /\ t[2] = Middle(r) - 1
      BY <3>1, MiddleIn
    <3>3. Finds(p, price, t[1], t[2], g[t])
      BY <3>2, <1>2
    <3> QED
      BY ONLY <3>1, <3>2, <3>3
  <2>5. IF r[1] > r[2] THEN v = 0
        ELSE IF p[Middle(r)] = price THEN v = Middle(r)
        ELSE IF Better(side, p[Middle(r)], price) THEN Finds(p, price, Middle(r) + 1, r[2], v)
        ELSE Finds(p, price, r[1], Middle(r) - 1, v)
    BY <2>1, <2>2, <2>3, <2>4
  <2>6. Finds(p, price, r[1], r[2], v)
    BY <2>5, FindsStep
  <2>7. PICK w : w = g[r]
    OBVIOUS
  <2>8. Finds(p, price, r[1], r[2], w)
    BY ONLY <1>2, <2>7, r \in Ranges(n)
  <2>9. w = v
    BY <2>6, <2>8, FindsOne
  <2> QED
    BY ONLY <2>1, <2>7, <2>9
<1>4. PICK h : h = [r \in Ranges(n) |->
                      IF r[1] > r[2] THEN 0
                      ELSE IF p[Middle(r)] = price THEN Middle(r)
                      ELSE IF Better(side, p[Middle(r)], price) THEN g[<<Middle(r) + 1, r[2]>>]
                      ELSE g[<<r[1], Middle(r) - 1>>]]
  OBVIOUS
<1>5. \A r \in Ranges(n) : g[r] = h[r]
  BY ONLY <1>3, <1>4
<1>6. g = h
  <2>1. g = [r \in Ranges(n) |-> g[r]]
    BY ONLY <1>1
  <2>2. h = [r \in Ranges(n) |-> h[r]]
    BY ONLY <1>4
  <2> QED
    BY ONLY <2>1, <2>2, <1>5
<1>7. IsSearch(side, p, price, n, g)
  BY ONLY <1>4, <1>6 DEF IsSearch
<1> QED
  BY <1>7

LEMMA SearchAt ==
    ASSUME NEW side, NEW n, NEW p, NEW price, NEW f, IsSearch(side, p, price, n, f), NEW r \in Ranges(n)
    PROVE  f[r] = IF r[1] > r[2] THEN 0
                  ELSE IF p[Middle(r)] = price THEN Middle(r)
                  ELSE IF Better(side, p[Middle(r)], price) THEN f[<<Middle(r) + 1, r[2]>>]
                  ELSE f[<<r[1], Middle(r) - 1>>]
<1>1. PICK h : h = [s \in Ranges(n) |->
                      IF s[1] > s[2] THEN 0
                      ELSE IF p[Middle(s)] = price THEN Middle(s)
                      ELSE IF Better(side, p[Middle(s)], price) THEN f[<<Middle(s) + 1, s[2]>>]
                      ELSE f[<<s[1], Middle(s) - 1>>]]
  OBVIOUS
<1>2. f = h
  BY ONLY <1>1, IsSearch(side, p, price, n, f) DEF IsSearch
<1>3. h[r] = IF r[1] > r[2] THEN 0
             ELSE IF p[Middle(r)] = price THEN Middle(r)
             ELSE IF Better(side, p[Middle(r)], price) THEN f[<<Middle(r) + 1, r[2]>>]
             ELSE f[<<r[1], Middle(r) - 1>>]
  BY ONLY <1>1, r \in Ranges(n)
<1> QED
  BY ONLY <1>2, <1>3

\* Any solution finds the place: a shortest range where it did not would
\* contradict its step.
LEMMA SearchFinds ==
    ASSUME NEW side \in Sides, NEW n \in Nat, NEW p, \A k \in 1 .. n : p[k] \in Nat, Ranked(side, p, n),
           NEW price \in Nat, NEW f, IsSearch(side, p, price, n, f)
    PROVE  \A r \in Ranges(n) : Finds(p, price, r[1], r[2], f[r])
<1> DEFINE Missed(r) == ~Finds(p, price, r[1], r[2], f[r])
           Bad == {d \in Nat : \E r \in Ranges(n) : d = r[2] - r[1] /\ Missed(r)}
<1>1. ASSUME NEW r \in Ranges(n), r[1] > r[2]
      PROVE  ~Missed(r)
  <2>1. f[r] = 0
    <3>1. f[r] = IF r[1] > r[2] THEN 0
                 ELSE IF p[Middle(r)] = price THEN Middle(r)
                 ELSE IF Better(side, p[Middle(r)], price) THEN f[<<Middle(r) + 1, r[2]>>]
                 ELSE f[<<r[1], Middle(r) - 1>>]
      BY SearchAt
    <3> QED
      BY ONLY <1>1, <3>1
  <2>2. r[1] \in Int /\ r[2] \in Int
    BY DEF Ranges
  <2> QED
    BY <1>1, <2>1, <2>2 DEF Finds
<1> SUFFICES ASSUME NEW r0 \in Ranges(n), Missed(r0)
             PROVE  FALSE
  OBVIOUS
<1>2. Bad # {} /\ Bad \subseteq Nat
  <2>1. r0[1] \in Int /\ r0[2] \in Int
    BY DEF Ranges
  <2>2. r0[2] - r0[1] \in Nat
    BY <1>1, <2>1
  <2> QED
    BY <2>2
<1>3. PICK d \in Bad : \A k \in Bad : ~ (k < d)
  <2> HIDE DEF Bad
  <2> QED
    BY <1>2, LeastNumber
<1>4. PICK r \in Ranges(n) : d = r[2] - r[1] /\ Missed(r)
  BY <1>3
<1>5. d \in Nat /\ r[1] \in Int /\ r[2] \in Int
  BY <1>3 DEF Ranges
<1>6. r[1] <= r[2]
  BY <1>4, <1>5
<1>7. ASSUME NEW t \in Ranges(n), t[1] > t[2] \/ t[2] - t[1] < d
      PROVE  Finds(p, price, t[1], t[2], f[t])
  <2>1. t[1] \in Int /\ t[2] \in Int
    BY DEF Ranges
  <2>2. CASE t[1] > t[2]
    BY <2>2, <1>1
  <2>3. CASE t[1] <= t[2]
    <3>1. t[2] - t[1] \in Nat /\ t[2] - t[1] < d
      BY <1>7, <2>1, <2>3
    <3>2. t[2] - t[1] \notin Bad
      BY <1>3, <3>1
    <3> QED
      BY <3>1, <3>2
  <2> QED
    BY <2>1, <2>2, <2>3
<1>8. PICK m : m = Middle(r)
  OBVIOUS
<1>9. m \in r[1] .. r[2] /\ <<m + 1, r[2]>> \in Ranges(n) /\ <<r[1], m - 1>> \in Ranges(n)
  BY <1>6, <1>8, MiddleIn
<1>10. Finds(p, price, m + 1, r[2], f[<<m + 1, r[2]>>])
  <2>1. PICK t : t = <<m + 1, r[2]>>
    OBVIOUS
  <2>2. t \in Ranges(n) /\ t[1] = m + 1 /\ t[2] = r[2]
    BY <1>9, <2>1
  <2>3. t[1] > t[2] \/ t[2] - t[1] < d
    BY <1>4, <1>5, <1>9, <2>2
  <2>4. Finds(p, price, t[1], t[2], f[t])
    BY <1>7, <2>2, <2>3
  <2> QED
    BY ONLY <2>1, <2>2, <2>4
<1>11. Finds(p, price, r[1], m - 1, f[<<r[1], m - 1>>])
  <2>1. PICK t : t = <<r[1], m - 1>>
    OBVIOUS
  <2>2. t \in Ranges(n) /\ t[1] = r[1] /\ t[2] = m - 1
    BY <1>9, <2>1
  <2>3. t[1] > t[2] \/ t[2] - t[1] < d
    BY <1>4, <1>5, <1>9, <2>2
  <2>4. Finds(p, price, t[1], t[2], f[t])
    BY <1>7, <2>2, <2>3
  <2> QED
    BY ONLY <2>1, <2>2, <2>4
<1>12. f[r] = IF r[1] > r[2] THEN 0
              ELSE IF p[m] = price THEN m
              ELSE IF Better(side, p[m], price) THEN f[<<m + 1, r[2]>>]
              ELSE f[<<r[1], m - 1>>]
  <2>1. f[r] = IF r[1] > r[2] THEN 0
               ELSE IF p[Middle(r)] = price THEN Middle(r)
               ELSE IF Better(side, p[Middle(r)], price) THEN f[<<Middle(r) + 1, r[2]>>]
               ELSE f[<<r[1], Middle(r) - 1>>]
    BY SearchAt
  <2> QED
    BY ONLY <2>1, <1>8
<1>13. IF r[1] > r[2] THEN f[r] = 0
       ELSE IF p[Middle(r)] = price THEN f[r] = Middle(r)
       ELSE IF Better(side, p[Middle(r)], price) THEN Finds(p, price, Middle(r) + 1, r[2], f[r])
       ELSE Finds(p, price, r[1], Middle(r) - 1, f[r])
  BY ONLY <1>8, <1>10, <1>11, <1>12
<1>14. Finds(p, price, r[1], r[2], f[r])
  BY <1>13, FindsStep
<1> QED
  BY <1>4, <1>14

\* find_level_idx, on a side whose levels are sorted, finds the level of a
\* price when there is one.
PricesOf(ls) == [k \in 1 .. Len(ls) |-> ls[k].price]
Sorted(side, ls) == Ranked(side, PricesOf(ls), Len(ls))

LEMMA PricesAre ==
    ASSUME NEW ls \in Seq(Level)
    PROVE  /\ Len(ls) \in Nat /\ DOMAIN ls = 1 .. Len(ls)
           /\ \A k \in 1 .. Len(ls) : /\ ls[k] \in Level /\ ls[k].price \in Prices /\ ls[k].price \in Nat
                                        /\ PricesOf(ls)[k] = ls[k].price
<1>1. Len(ls) \in Nat /\ DOMAIN ls = 1 .. Len(ls)
  BY LenProperties
<1>2. \A k \in 1 .. Len(ls) : ls[k] \in Level
  BY ElementOfSeq
<1>3. \A k \in 1 .. Len(ls) : ls[k].price \in Prices
  BY <1>2 DEF Level
<1>4. \A k \in 1 .. Len(ls) : PricesOf(ls)[k] = ls[k].price
  BY DEF PricesOf
<1> QED
  BY <1>1, <1>2, <1>3, <1>4, EngineAssumption

OnLevels(side, ls, price, n, g) ==
    g = [r \in (1 .. n + 1) \X (0 .. n) |->
            IF r[1] > r[2] THEN 0
            ELSE IF ls[(r[1] + r[2]) \div 2].price = price THEN (r[1] + r[2]) \div 2
            ELSE IF Better(side, ls[(r[1] + r[2]) \div 2].price, price)
                 THEN g[<<(r[1] + r[2]) \div 2 + 1, r[2]>>]
            ELSE g[<<r[1], (r[1] + r[2]) \div 2 - 1>>]]

LEMMA FindIs ==
    ASSUME NEW side, NEW price
    PROVE  find_level_idx(side, price) =
               (CHOOSE g : OnLevels(side, book[side], price, Len(book[side]), g))[<<1, Len(book[side])>>]
BY Zenon DEF find_level_idx, OnLevels

LEMMA FindLevel ==
    ASSUME NEW side \in Sides, NEW price \in Prices, book[side] \in Seq(Level), Sorted(side, book[side])
    PROVE  LET i == find_level_idx(side, price) IN
           /\ i \in 0 .. Len(book[side])
           /\ i # 0 => book[side][i].price = price
           /\ i = 0 => \A k \in 1 .. Len(book[side]) : book[side][k].price # price
<1>1. PICK ls : ls = book[side]
  OBVIOUS
<1>2. PICK n : n = Len(ls)
  OBVIOUS
<1>3. PICK p : p = PricesOf(ls)
  OBVIOUS
<1>4. ls \in Seq(Level) /\ Ranked(side, p, n)
  BY <1>1, <1>2, <1>3 DEF Sorted
<1>5. n \in Nat /\ \A k \in 1 .. n : p[k] \in Nat /\ p[k] = ls[k].price
  BY <1>2, <1>3, <1>4, PricesAre
<1>6. price \in Nat
  BY EngineAssumption
<1>7. PICK f : f = CHOOSE g : IsSearch(side, p, price, n, g)
  OBVIOUS
<1>8. IsSearch(side, p, price, n, f)
  <2>1. \E g : IsSearch(side, p, price, n, g)
    BY <1>4, <1>5, <1>6, SearchExists
  <2> QED
    BY ONLY <1>7, <2>1
<1>9. find_level_idx(side, price) = f[<<1, n>>]
  <2>1. find_level_idx(side, price) = (CHOOSE g : OnLevels(side, ls, price, n, g))[<<1, n>>]
    BY ONLY <1>1, <1>2, FindIs
  <2>2. \A g : OnLevels(side, ls, price, n, g) <=> IsSearch(side, p, price, n, g)
    <3> SUFFICES ASSUME NEW g PROVE OnLevels(side, ls, price, n, g) <=> IsSearch(side, p, price, n, g)
      OBVIOUS
    <3>1. ASSUME NEW r \in Ranges(n)
          PROVE  (IF r[1] > r[2] THEN 0
                  ELSE IF ls[Middle(r)].price = price THEN Middle(r)
                  ELSE IF Better(side, ls[Middle(r)].price, price) THEN g[<<Middle(r) + 1, r[2]>>]
                  ELSE g[<<r[1], Middle(r) - 1>>]) =
                 (IF r[1] > r[2] THEN 0
                  ELSE IF p[Middle(r)] = price THEN Middle(r)
                  ELSE IF Better(side, p[Middle(r)], price) THEN g[<<Middle(r) + 1, r[2]>>]
                  ELSE g[<<r[1], Middle(r) - 1>>])
      <4>1. r[1] \in Int /\ r[2] \in Int
        BY DEF Ranges
      <4>2. r[1] <= r[2] => p[Middle(r)] = ls[Middle(r)].price
        BY <1>5, MiddleIn
      <4> QED
        BY ONLY <4>1, <4>2
    <3>2. PICK a : a = [r \in Ranges(n) |->
                          IF r[1] > r[2] THEN 0
                          ELSE IF ls[Middle(r)].price = price THEN Middle(r)
                          ELSE IF Better(side, ls[Middle(r)].price, price) THEN g[<<Middle(r) + 1, r[2]>>]
                          ELSE g[<<r[1], Middle(r) - 1>>]]
      OBVIOUS
    <3>3. PICK b : b = [r \in Ranges(n) |->
                          IF r[1] > r[2] THEN 0
                          ELSE IF p[Middle(r)] = price THEN Middle(r)
                          ELSE IF Better(side, p[Middle(r)], price) THEN g[<<Middle(r) + 1, r[2]>>]
                          ELSE g[<<r[1], Middle(r) - 1>>]]
      OBVIOUS
    <3>4. a = b
      BY ONLY <3>1, <3>2, <3>3
    <3>5. OnLevels(side, ls, price, n, g) <=> g = a
      BY ONLY <3>2, Zenon DEF OnLevels, Ranges, Middle
    <3>6. IsSearch(side, p, price, n, g) <=> g = b
      BY ONLY <3>3, Zenon DEF IsSearch
    <3> QED
      BY ONLY <3>4, <3>5, <3>6
  <2>3. (CHOOSE g : OnLevels(side, ls, price, n, g)) = CHOOSE g : IsSearch(side, p, price, n, g)
    BY ONLY <2>2
  <2> QED
    BY ONLY <1>7, <2>1, <2>3
<1>10. PICK r : r = <<1, n>>
  OBVIOUS
<1>11. r \in Ranges(n) /\ r[1] = 1 /\ r[2] = n
  BY <1>5, <1>10 DEF Ranges
<1>12. Finds(p, price, r[1], r[2], f[r])
  BY <1>4, <1>5, <1>6, <1>8, <1>11, SearchFinds
<1>13. PICK i : i = find_level_idx(side, price)
  OBVIOUS
<1>14. Finds(p, price, 1, n, i)
  BY ONLY <1>9, <1>10, <1>11, <1>12, <1>13
<1>15. /\ i \in 0 .. n
       /\ i # 0 => i \in 1 .. n /\ p[i] = price
       /\ i = 0 => \A k \in 1 .. n : p[k] # price
  BY <1>5, <1>14 DEF Finds
<1>16. /\ i \in 0 .. n
       /\ i # 0 => ls[i].price = price
       /\ i = 0 => \A k \in 1 .. n : ls[k].price # price
  BY <1>5, <1>15
<1> QED
  BY ONLY <1>1, <1>2, <1>13, <1>16

-----------------------------------------------------------------------------
(* A well-formed side.                                                     *)

\* A resting order has what it was added with minus its trades, and an iceberg
\* always shows something.
Promised(node, quants) ==
    /\ node.id \in 1 .. Len(quants)
    /\ node.rem > 0 /\ node.rem = quants[node.id]
    /\ node.ice => node.vis > 0

\* A level: exact counters, orders by age.
Fifo(queue) == \A k, h \in 1 .. Len(queue) : k < h => queue[k].id < queue[h].id
Backed(queue, quants) == \A k \in 1 .. Len(queue) : Promised(queue[k], quants)
Counted(l) == l.count = Len(l.queue) /\ l.volume = Total(l.queue)
Sound(l, quants) == Counted(l) /\ Fifo(l.queue) /\ Backed(l.queue, quants)

Away(queue, id) == \A k \in 1 .. Len(queue) : queue[k].id # id
Apart(q, r) == \A k \in 1 .. Len(q) : Away(r, q[k].id)

\* A side: levels best first, none empty, no order twice.
SoundSide(side, ls, quants) ==
    /\ Sorted(side, ls)
    /\ \A i \in 1 .. Len(ls) : ls[i].queue # <<>> /\ Sound(ls[i], quants)
    /\ \A i, j \in 1 .. Len(ls) : i # j => Apart(ls[i].queue, ls[j].queue)

LEMMA QueueType ==
    ASSUME NEW l \in Level
    PROVE  /\ l.queue \in Seq(Node) /\ Len(l.queue) \in Nat /\ DOMAIN l.queue = 1 .. Len(l.queue)
           /\ \A k \in 1 .. Len(l.queue) : /\ l.queue[k] \in Node /\ l.queue[k].id \in Nat
                                             /\ l.queue[k].rem \in Nat /\ l.queue[k].vis \in Int
                                             /\ l.queue[k].ice \in BOOLEAN
           /\ l.price \in Prices /\ l.price \in Nat /\ l.volume \in Int /\ l.count \in Int
<1>1. l.queue \in Seq(Node) /\ l.price \in Prices /\ l.volume \in Int /\ l.count \in Int
  BY DEF Level
<1>2. Len(l.queue) \in Nat /\ DOMAIN l.queue = 1 .. Len(l.queue)
  BY <1>1, LenProperties
<1>3. \A k \in 1 .. Len(l.queue) : l.queue[k] \in Node
  BY <1>1, ElementOfSeq
<1>4. l.price \in Nat
  BY <1>1, EngineAssumption
<1> QED
  BY <1>1, <1>2, <1>3, <1>4 DEF Node

\* Sortedness, read off the levels.
LEMMA SortedIs ==
    ASSUME NEW side, NEW ls \in Seq(Level)
    PROVE  Sorted(side, ls) <=>
               \A i, j \in 1 .. Len(ls) : i < j => Better(side, ls[i].price, ls[j].price)
<1>1. \A k \in 1 .. Len(ls) : PricesOf(ls)[k] = ls[k].price
  BY PricesAre
<1> QED
  BY <1>1 DEF Sorted, Ranked

\* A level is not affected by what happens to an order elsewhere.
LEMMA BackedStill ==
    ASSUME NEW queue, NEW quants, NEW after, Len(quants) \in Nat, Len(after) \in Nat, Len(after) >= Len(quants),
           NEW id, \A x \in 1 .. Len(quants) : x # id => after[x] = quants[x],
           Backed(queue, quants), Away(queue, id)
    PROVE  Backed(queue, after)
<1> SUFFICES ASSUME NEW k \in 1 .. Len(queue) PROVE Promised(queue[k], after)
  BY DEF Backed
<1>1. PICK node : node = queue[k]
  OBVIOUS
<1>2. Promised(node, quants) /\ node.id # id
  BY <1>1 DEF Backed, Away
<1>3. node.id \in 1 .. Len(after) /\ after[node.id] = quants[node.id]
  BY <1>2 DEF Promised
<1>4. Promised(node, after)
  BY <1>2, <1>3 DEF Promised
<1> QED
  BY <1>1, <1>4

\* One level replaced by a sound one of the same price.
LEMMA SideReplaced ==
    ASSUME NEW side \in Sides, NEW ls \in Seq(Level), NEW quants, NEW j \in 1 .. Len(ls), NEW l \in Level,
           Sorted(side, ls), l.price = ls[j].price, l.queue # <<>>, Sound(l, quants),
           \A i \in 1 .. Len(ls) : i # j => /\ ls[i].queue # <<>> /\ Sound(ls[i], quants)
                                            /\ Apart(ls[i].queue, l.queue) /\ Apart(l.queue, ls[i].queue),
           \A i, h \in 1 .. Len(ls) : i # h /\ i # j /\ h # j => Apart(ls[i].queue, ls[h].queue)
    PROVE  ReplaceAt(ls, j, l) \in Seq(Level) /\ SoundSide(side, ReplaceAt(ls, j, l), quants)
<1>1. PICK m : m = ReplaceAt(ls, j, l)
  OBVIOUS
<1>2. /\ m \in Seq(Level) /\ Len(m) = Len(ls)
      /\ \A i \in 1 .. Len(ls) : m[i] = IF i = j THEN l ELSE ls[i]
  BY <1>1, ExceptSeq DEF ReplaceAt
<1>3. \A i \in 1 .. Len(ls) : m[i].price = ls[i].price
  BY <1>2
<1>4. Sorted(side, m)
  <2>1. \A i, h \in 1 .. Len(ls) : i < h => Better(side, ls[i].price, ls[h].price)
    BY SortedIs
  <2>2. \A i, h \in 1 .. Len(m) : i < h => Better(side, m[i].price, m[h].price)
    BY <1>2, <1>3, <2>1
  <2> QED
    BY <1>2, <2>2, SortedIs
<1>5. \A i \in 1 .. Len(m) : m[i].queue # <<>> /\ Sound(m[i], quants)
  BY <1>2
<1>6. \A i, h \in 1 .. Len(m) : i # h => Apart(m[i].queue, m[h].queue)
  BY <1>2
<1> QED
  BY <1>1, <1>2, <1>4, <1>5, <1>6 DEF SoundSide

\* One level dropped.
LEMMA SideRemoved ==
    ASSUME NEW side \in Sides, NEW ls \in Seq(Level), NEW quants, NEW j \in 1 .. Len(ls),
           Sorted(side, ls),
           \A i \in 1 .. Len(ls) : i # j => ls[i].queue # <<>> /\ Sound(ls[i], quants),
           \A i, h \in 1 .. Len(ls) : i # h /\ i # j /\ h # j => Apart(ls[i].queue, ls[h].queue)
    PROVE  RemoveAt(ls, j) \in Seq(Level) /\ SoundSide(side, RemoveAt(ls, j), quants)
<1>1. PICK m : m = RemoveAt(ls, j)
  OBVIOUS
<1>2. PICK n : n = Len(ls)
  OBVIOUS
<1>3. /\ n \in Nat /\ j \in 1 .. n /\ m \in Seq(Level) /\ Len(m) = n - 1
      /\ \A i \in 1 .. n - 1 : m[i] = IF i < j THEN ls[i] ELSE ls[i + 1]
  BY <1>1, <1>2, RemoveAtIs, LenProperties
<1>4. PICK g : g = [i \in 1 .. n - 1 |-> IF i < j THEN i ELSE i + 1]
  OBVIOUS
<1>5. \A i \in 1 .. n - 1 : g[i] \in 1 .. n /\ g[i] # j /\ m[i] = ls[g[i]]
  BY <1>3, <1>4
<1>6. \A i, h \in 1 .. n - 1 : (i < h => g[i] < g[h]) /\ (i # h => g[i] # g[h])
  BY <1>3, <1>4
<1>7. Sorted(side, m)
  <2>1. \A i, h \in 1 .. n : i < h => Better(side, ls[i].price, ls[h].price)
    BY <1>2, SortedIs
  <2>2. \A i, h \in 1 .. Len(m) : i < h => Better(side, m[i].price, m[h].price)
    <3> SUFFICES ASSUME NEW i \in 1 .. n - 1, NEW h \in 1 .. n - 1, i < h
                 PROVE  Better(side, m[i].price, m[h].price)
      BY <1>3
    <3>1. g[i] \in 1 .. n /\ g[h] \in 1 .. n /\ g[i] < g[h] /\ m[i] = ls[g[i]] /\ m[h] = ls[g[h]]
      BY <1>5, <1>6
    <3> QED
      BY <2>1, <3>1
  <2> QED
    BY <1>3, <2>2, SortedIs
<1>8. \A i \in 1 .. Len(m) : m[i].queue # <<>> /\ Sound(m[i], quants)
  <2> SUFFICES ASSUME NEW i \in 1 .. n - 1 PROVE m[i].queue # <<>> /\ Sound(m[i], quants)
    BY <1>3
  <2>1. g[i] \in 1 .. Len(ls) /\ g[i] # j /\ m[i] = ls[g[i]]
    BY ONLY <1>2, <1>5
  <2>2. ls[g[i]].queue # <<>> /\ Sound(ls[g[i]], quants)
    BY <2>1
  <2> QED
    BY ONLY <2>1, <2>2
<1>9. \A i, h \in 1 .. Len(m) : i # h => Apart(m[i].queue, m[h].queue)
  <2> SUFFICES ASSUME NEW i \in 1 .. n - 1, NEW h \in 1 .. n - 1, i # h
               PROVE  Apart(m[i].queue, m[h].queue)
    BY <1>3
  <2>1. /\ g[i] \in 1 .. n /\ g[h] \in 1 .. n /\ g[i] # g[h] /\ g[i] # j /\ g[h] # j
        /\ m[i] = ls[g[i]] /\ m[h] = ls[g[h]]
    BY <1>5, <1>6
  <2> QED
    BY <1>2, <2>1
<1> QED
  BY <1>1, <1>3, <1>7, <1>8, <1>9 DEF SoundSide

\* maybe_compact_level: a level whose count is exact is dropped when it is
\* empty, and only then.
LEMMA SideCompacted ==
    ASSUME NEW side \in Sides, NEW ls \in Seq(Level), NEW quants, NEW j \in 1 .. Len(ls), NEW l \in Level,
           Sorted(side, ls), l.price = ls[j].price, Sound(l, quants),
           \A i \in 1 .. Len(ls) : i # j => /\ ls[i].queue # <<>> /\ Sound(ls[i], quants)
                                            /\ Apart(ls[i].queue, l.queue) /\ Apart(l.queue, ls[i].queue),
           \A i, h \in 1 .. Len(ls) : i # h /\ i # j /\ h # j => Apart(ls[i].queue, ls[h].queue)
    PROVE  /\ maybe_compact_level(ls, j, l) \in Seq(Level)
           /\ SoundSide(side, maybe_compact_level(ls, j, l), quants)
<1>1. l.queue \in Seq(Node) /\ l.count = Len(l.queue)
  BY QueueType DEF Sound, Counted
<1>2. l.count = 0 <=> l.queue = <<>>
  BY <1>1, EmptySeq
<1>3. CASE l.count = 0
  <2>1. maybe_compact_level(ls, j, l) = RemoveAt(ls, j)
    BY <1>3 DEF maybe_compact_level
  <2>2. \A i \in 1 .. Len(ls) : i # j => ls[i].queue # <<>> /\ Sound(ls[i], quants)
    OBVIOUS
  <2>3. RemoveAt(ls, j) \in Seq(Level) /\ SoundSide(side, RemoveAt(ls, j), quants)
    BY <2>2, SideRemoved
  <2> QED
    BY <2>1, <2>3
<1>4. CASE l.count # 0
  <2>1. maybe_compact_level(ls, j, l) = ReplaceAt(ls, j, l)
    BY <1>4 DEF maybe_compact_level
  <2>2. ReplaceAt(ls, j, l) \in Seq(Level) /\ SoundSide(side, ReplaceAt(ls, j, l), quants)
    BY <1>2, <1>4, SideReplaced
  <2> QED
    BY <2>1, <2>2
<1> QED
  BY <1>3, <1>4

-----------------------------------------------------------------------------
(* What the calls do to one level.                                         *)

\* append_order_to_level: a younger order at the tail.
LEMMA LevelAppended ==
    ASSUME NEW l \in Level, NEW quants \in Seq(Nat), NEW qty \in Nat, NEW node \in Node,
           Sound(l, quants), node.id = Len(quants) + 1, node.rem = qty, qty > 0, node.ice => node.vis > 0
    PROVE  LET m == append_order_to_level(l, node)
           IN  /\ m \in Level /\ m.price = l.price /\ m.queue # <<>>
               /\ Sound(m, Append(quants, qty))
               /\ \A k \in 1 .. Len(m.queue) :
                     m.queue[k].id = node.id \/ \E h \in 1 .. Len(l.queue) : m.queue[k].id = l.queue[h].id
<1>1. PICK m : m = append_order_to_level(l, node)
  OBVIOUS
<1>2. PICK after : after = Append(quants, qty)
  OBVIOUS
<1>3. PICK n : n = Len(l.queue)
  OBVIOUS
<1>4. /\ l.queue \in Seq(Node) /\ n \in Nat /\ l.price \in Prices /\ l.volume \in Int /\ l.count \in Int
      /\ \A k \in 1 .. n : l.queue[k].id \in Nat
  BY <1>3, QueueType
<1>5. /\ m.queue = Append(l.queue, node) /\ m.volume = l.volume + node.rem /\ m.count = l.count + 1
      /\ m.price = l.price
      /\ m = [price |-> m.price, queue |-> m.queue, volume |-> m.volume, count |-> m.count]
  BY <1>1 DEF append_order_to_level, Level
<1>6. /\ m.queue \in Seq(Node) /\ m.queue # <<>> /\ Len(m.queue) = n + 1
      /\ m.queue[n + 1] = node /\ \A k \in 1 .. n : m.queue[k] = l.queue[k]
  <2>1. PICK q : q = l.queue
    OBVIOUS
  <2>2. /\ Append(q, node) \in Seq(Node) /\ Append(q, node) # <<>> /\ Len(Append(q, node)) = Len(q) + 1
        /\ \A k \in 1 .. Len(q) : Append(q, node)[k] = q[k]
        /\ Append(q, node)[Len(q) + 1] = node
    <3>1. q \in Seq(Node)
      BY <1>4, <2>1
    <3> QED
      BY ONLY <3>1, node \in Node, AppendProperties
  <2>3. m.queue = Append(q, node) /\ Len(q) = n
    BY <1>3, <1>5, <2>1
  <2> QED
    BY ONLY <2>1, <2>2, <2>3
<1>7. node.rem \in Int /\ node.id \in Nat
  BY DEF Node
<1>8. m \in Level
  <2>1. m.price \in Prices /\ m.volume \in Int /\ m.count \in Int
    BY <1>4, <1>5, <1>7
  <2> QED
    BY <1>5, <1>6, <2>1 DEF Level
<1>9. Counted(m)
  <2>1. l.count = n /\ l.volume = Total(l.queue)
    BY <1>3 DEF Sound, Counted
  <2>2. Total(m.queue) = Total(l.queue) + node.rem
    BY <1>4, <1>5, TotalAppend
  <2> QED
    BY <1>5, <1>6, <2>1, <2>2 DEF Counted
<1>10. /\ after \in Seq(Nat) /\ Len(quants) \in Nat /\ Len(after) = Len(quants) + 1
       /\ after[Len(quants) + 1] = qty /\ \A x \in 1 .. Len(quants) : after[x] = quants[x]
  BY <1>2, AppendProperties, LenProperties
<1>11. \A k \in 1 .. n : Promised(l.queue[k], quants)
  BY <1>3 DEF Sound, Backed
<1>12. \A k \in 1 .. n : l.queue[k].id \in 1 .. Len(quants)
  BY <1>11 DEF Promised
<1>13. Backed(m.queue, after)
  <2> SUFFICES ASSUME NEW k \in 1 .. n + 1 PROVE Promised(m.queue[k], after)
    BY <1>6 DEF Backed
  <2>1. CASE k = n + 1
    <3>1. node.id \in 1 .. Len(after) /\ node.rem = after[node.id]
      BY <1>10
    <3> QED
      BY <1>6, <2>1, <3>1 DEF Promised
  <2>2. CASE k # n + 1
    <3>1. PICK x : x = l.queue[k]
      OBVIOUS
    <3>2. k \in 1 .. n
      BY <1>4, <2>2
    <3>3. Promised(x, quants) /\ x = m.queue[k]
      BY <1>6, <1>11, <3>1, <3>2
    <3>4. x.id \in 1 .. Len(after) /\ after[x.id] = quants[x.id]
      BY <1>10, <3>3 DEF Promised
    <3>5. Promised(x, after)
      BY <3>3, <3>4 DEF Promised
    <3> QED
      BY <3>3, <3>5
  <2> QED
    BY <2>1, <2>2
<1>14. Fifo(m.queue)
  <2> SUFFICES ASSUME NEW k \in 1 .. n + 1, NEW h \in 1 .. n + 1, k < h
               PROVE  m.queue[k].id < m.queue[h].id
    BY <1>6 DEF Fifo
  <2>1. k \in 1 .. n
    BY <1>4
  <2>2. CASE h = n + 1
    <3>1. m.queue[k].id \in 1 .. Len(quants) /\ m.queue[h].id = Len(quants) + 1
      BY <1>6, <1>12, <2>1, <2>2
    <3> QED
      BY <1>10, <3>1
  <2>3. CASE h # n + 1
    <3>1. h \in 1 .. n
      BY <1>4, <2>3
    <3>2. l.queue[k].id < l.queue[h].id
      BY <1>3, <2>1, <3>1 DEF Sound, Fifo
    <3> QED
      BY <1>6, <2>1, <3>1, <3>2
  <2> QED
    BY <2>2, <2>3
<1>15. \A k \in 1 .. Len(m.queue) :
          m.queue[k].id = node.id \/ \E h \in 1 .. Len(l.queue) : m.queue[k].id = l.queue[h].id
  <2> SUFFICES ASSUME NEW k \in 1 .. n + 1, k # n + 1
               PROVE  \E h \in 1 .. n : m.queue[k].id = l.queue[h].id
    BY <1>3, <1>6
  <2>1. k \in 1 .. n
    BY <1>4
  <2> QED
    BY <1>6, <2>1
<1>16. Sound(m, after)
  BY <1>9, <1>13, <1>14 DEF Sound
<1> QED
  BY ONLY <1>1, <1>2, <1>5, <1>6, <1>8, <1>15, <1>16

\* Every order of q is one of r.
Within(q, r) == \A k \in 1 .. Len(q) : \E h \in 1 .. Len(r) : q[k].id = r[h].id

\* An order unlinked: the others keep their age order, and the counters are
\* exact again.
LEMMA LevelUnlinked ==
    ASSUME NEW l \in Level, NEW quants \in Seq(Nat), NEW after \in Seq(Nat), NEW m \in Level,
           NEW i \in 1 .. Len(l.queue), Sound(l, quants), Len(after) = Len(quants),
           \A x \in 1 .. Len(quants) : x # l.queue[i].id => after[x] = quants[x],
           m.queue = RemoveAt(l.queue, i), m.count = l.count - 1, m.volume = l.volume - l.queue[i].rem
    PROVE  Sound(m, after) /\ Within(m.queue, l.queue)
<1>1. PICK n : n = Len(l.queue)
  OBVIOUS
<1>2. PICK id : id = l.queue[i].id
  OBVIOUS
<1>3. /\ l.queue \in Seq(Node) /\ n \in Nat /\ i \in 1 .. n
      /\ \A k \in 1 .. n : l.queue[k].id \in Nat /\ l.queue[k].rem \in Nat
  BY <1>1, QueueType
<1>4. /\ Len(m.queue) = n - 1
      /\ \A k \in 1 .. n - 1 : m.queue[k] = IF k < i THEN l.queue[k] ELSE l.queue[k + 1]
  <2>1. PICK q : q = l.queue
    OBVIOUS
  <2>2. q \in Seq(Node) /\ i \in 1 .. Len(q) /\ Len(q) = n /\ m.queue = RemoveAt(q, i)
    BY <1>1, <1>3, <2>1
  <2>3. /\ Len(RemoveAt(q, i)) = Len(q) - 1
        /\ \A k \in 1 .. Len(q) - 1 : RemoveAt(q, i)[k] = IF k < i THEN q[k] ELSE q[k + 1]
    BY ONLY <2>2, RemoveAtIs
  <2> QED
    BY ONLY <2>1, <2>2, <2>3
<1>5. PICK g : g = [k \in 1 .. n - 1 |-> IF k < i THEN k ELSE k + 1]
  OBVIOUS
<1>6. \A k \in 1 .. n - 1 : g[k] \in 1 .. n /\ g[k] # i /\ m.queue[k] = l.queue[g[k]]
  BY <1>3, <1>4, <1>5
<1>7. \A k, h \in 1 .. n - 1 : k < h => g[k] < g[h]
  BY <1>3, <1>5
<1>8. \A k, h \in 1 .. n : k < h => l.queue[k].id < l.queue[h].id
  BY <1>1 DEF Sound, Fifo
<1>9. Fifo(m.queue)
  <2> SUFFICES ASSUME NEW k \in 1 .. n - 1, NEW h \in 1 .. n - 1, k < h
               PROVE  m.queue[k].id < m.queue[h].id
    BY <1>4 DEF Fifo
  <2>1. g[k] \in 1 .. n /\ g[h] \in 1 .. n /\ g[k] < g[h] /\ m.queue[k] = l.queue[g[k]] /\ m.queue[h] = l.queue[g[h]]
    BY <1>6, <1>7
  <2> QED
    BY <1>8, <2>1
<1>10. ASSUME NEW k \in 1 .. n - 1 PROVE m.queue[k].id # id
  <2>1. PICK x \in 1 .. n : x # i /\ m.queue[k] = l.queue[x]
    BY <1>6
  <2>2. x < i \/ i < x
    BY <1>3, <2>1
  <2>3. l.queue[x].id < l.queue[i].id \/ l.queue[i].id < l.queue[x].id
    BY <1>3, <1>8, <2>1, <2>2
  <2>4. l.queue[x].id \in Nat /\ l.queue[i].id \in Nat
    BY <1>3
  <2> QED
    BY <1>2, <2>1, <2>3, <2>4
<1>11. Away(m.queue, id)
  BY <1>4, <1>10 DEF Away
<1>12. Backed(m.queue, quants)
  <2>1. \A k \in 1 .. n : Promised(l.queue[k], quants)
    BY <1>1 DEF Sound, Backed
  <2>2. \A k \in 1 .. n - 1 : Promised(m.queue[k], quants)
    BY <1>6, <2>1
  <2> QED
    BY <1>4, <2>2 DEF Backed
<1>13. Backed(m.queue, after)
  <2>1. Len(quants) \in Nat /\ Len(after) \in Nat /\ Len(after) >= Len(quants)
    BY LenProperties
  <2>2. \A x \in 1 .. Len(quants) : x # id => after[x] = quants[x]
    BY <1>2
  <2> QED
    BY ONLY <1>11, <1>12, <2>1, <2>2, BackedStill
<1>14. Counted(m)
  <2>1. l.count = n /\ l.volume = Total(l.queue)
    BY <1>1 DEF Sound, Counted
  <2>2. Total(m.queue) = Total(l.queue) - l.queue[i].rem
    BY <1>3, TotalRemove
  <2> QED
    BY <1>4, <2>1, <2>2 DEF Counted
<1>15. \A k \in 1 .. n - 1 : \E h \in 1 .. n : m.queue[k].id = l.queue[h].id
  BY <1>6
<1> QED
  BY <1>1, <1>4, <1>9, <1>13, <1>14, <1>15 DEF Sound, Within

\* One order of the level gives something up and keeps some.
LEMMA LevelFilled ==
    ASSUME NEW l \in Level, NEW quants \in Seq(Nat), NEW after \in Seq(Nat), NEW m \in Level,
           NEW i \in 1 .. Len(l.queue), NEW node \in Node, Sound(l, quants), Len(after) = Len(quants),
           \A x \in 1 .. Len(quants) : x # l.queue[i].id => after[x] = quants[x],
           Len(m.queue) = Len(l.queue),
           \A k \in 1 .. Len(l.queue) : m.queue[k] = IF k = i THEN node ELSE l.queue[k],
           node.id = l.queue[i].id, Promised(node, after),
           m.count = l.count, m.volume = (l.volume + node.rem) - l.queue[i].rem
    PROVE  Sound(m, after) /\ Within(m.queue, l.queue)
<1>1. PICK n : n = Len(l.queue)
  OBVIOUS
<1>2. PICK id : id = l.queue[i].id
  OBVIOUS
<1>3. /\ l.queue \in Seq(Node) /\ m.queue \in Seq(Node) /\ n \in Nat /\ i \in 1 .. n
      /\ \A k \in 1 .. n : l.queue[k].id \in Nat /\ l.queue[k].rem \in Nat
  BY <1>1, QueueType
<1>4. \A k \in 1 .. n : m.queue[k].id = l.queue[k].id
  BY <1>1
<1>5. \A k, h \in 1 .. n : k < h => l.queue[k].id < l.queue[h].id
  BY <1>1 DEF Sound, Fifo
<1>6. Fifo(m.queue)
  BY <1>1, <1>4, <1>5 DEF Fifo
<1>7. Backed(m.queue, after)
  <2> SUFFICES ASSUME NEW k \in 1 .. n PROVE Promised(m.queue[k], after)
    BY <1>1 DEF Backed
  <2>1. CASE k = i
    BY <1>1, <2>1
  <2>2. CASE k # i
    <3>1. PICK x : x = l.queue[k]
      OBVIOUS
    <3>2. Promised(x, quants) /\ m.queue[k] = x
      BY <1>1, <2>2, <3>1 DEF Sound, Backed
    <3>3. k < i \/ i < k
      BY <1>3, <2>2
    <3>4. x.id # id
      BY <1>2, <1>3, <1>5, <3>1, <3>3
    <3>5. after[x.id] = quants[x.id] /\ x.id \in 1 .. Len(after)
      BY <1>2, <3>2, <3>4 DEF Promised
    <3>6. Promised(x, after)
      BY <3>2, <3>5 DEF Promised
    <3> QED
      BY <3>2, <3>6
  <2> QED
    BY <2>1, <2>2
<1>8. Counted(m)
  <2>1. l.count = n /\ l.volume = Total(l.queue)
    BY <1>1 DEF Sound, Counted
  <2>2. \A k \in 1 .. Len(l.queue) : k # i => m.queue[k] = l.queue[k]
    OBVIOUS
  <2>3. Total(m.queue) = (Total(l.queue) + m.queue[i].rem) - l.queue[i].rem
    BY <1>3, <2>2, TotalChange
  <2>4. m.queue[i] = node
    OBVIOUS
  <2> QED
    BY <1>1, <2>1, <2>3, <2>4 DEF Counted
<1> QED
  BY <1>1, <1>4, <1>6, <1>7, <1>8 DEF Sound, Within

-----------------------------------------------------------------------------
(* What the calls do to a side.                                            *)

LEMMA ApartWithin ==
    ASSUME NEW q, NEW m, NEW r, Within(m, q)
    PROVE  (Apart(q, r) => Apart(m, r)) /\ (Apart(r, q) => Apart(r, m))
<1>1. ASSUME Apart(q, r), NEW k \in 1 .. Len(m), NEW h \in 1 .. Len(r) PROVE r[h].id # m[k].id
  <2>1. PICK g \in 1 .. Len(q) : m[k].id = q[g].id
    BY DEF Within
  <2> QED
    BY <1>1, <2>1 DEF Apart, Away
<1>2. ASSUME Apart(r, q), NEW k \in 1 .. Len(m), NEW h \in 1 .. Len(r) PROVE m[k].id # r[h].id
  <2>1. PICK g \in 1 .. Len(q) : m[k].id = q[g].id
    BY DEF Within
  <2> QED
    BY <1>2, <2>1 DEF Apart, Away
<1> QED
  BY <1>1, <1>2 DEF Apart, Away

\* Nothing but order `id` owes another quantity.
ElseSame(quants, after, id) ==
    /\ quants \in Seq(Nat) /\ after \in Seq(Nat) /\ Len(after) = Len(quants)
    /\ \A y \in 1 .. Len(quants) : y # id => after[y] = quants[y]

\* A level loses an order or part of one; all the others are as they were.
LEMMA SideChanged ==
    ASSUME NEW side \in Sides, NEW ls \in Seq(Level), NEW quants, NEW after, NEW id, ElseSame(quants, after, id),
           SoundSide(side, ls, quants), NEW j \in 1 .. Len(ls), NEW m \in Level, m.price = ls[j].price,
           Sound(m, after), Within(m.queue, ls[j].queue), \E x \in 1 .. Len(ls[j].queue) : id = ls[j].queue[x].id
    PROVE  /\ maybe_compact_level(ls, j, m) \in Seq(Level)
           /\ SoundSide(side, maybe_compact_level(ls, j, m), after)
<1>1. Sorted(side, ls)
  BY DEF SoundSide
<1>2. \A i, h \in 1 .. Len(ls) : i # h => Apart(ls[i].queue, ls[h].queue)
  BY DEF SoundSide
<1>3. ASSUME NEW i \in 1 .. Len(ls), i # j
      PROVE  /\ ls[i].queue # <<>> /\ Sound(ls[i], after)
             /\ Apart(ls[i].queue, m.queue) /\ Apart(m.queue, ls[i].queue)
  <2>1. ls[i].queue # <<>> /\ Sound(ls[i], quants)
    BY DEF SoundSide
  <2>2. Apart(ls[j].queue, ls[i].queue) /\ Apart(ls[i].queue, ls[j].queue)
    BY <1>2, <1>3
  <2>3. Apart(m.queue, ls[i].queue) /\ Apart(ls[i].queue, m.queue)
    BY ONLY <2>2, Within(m.queue, ls[j].queue), ApartWithin
  <2>4. PICK q : q = ls[i].queue
    OBVIOUS
  <2>5. Away(q, id)
    <3>1. PICK x \in 1 .. Len(ls[j].queue) : id = ls[j].queue[x].id
      OBVIOUS
    <3> QED
      BY <2>2, <2>4, <3>1 DEF Apart
  <2>6. Backed(q, quants)
    BY <2>1, <2>4 DEF Sound
  <2>7. Len(quants) \in Nat /\ Len(after) \in Nat /\ Len(after) >= Len(quants)
    BY LenProperties DEF ElseSame
  <2>8. \A y \in 1 .. Len(quants) : y # id => after[y] = quants[y]
    BY DEF ElseSame
  <2>9. Backed(q, after)
    BY ONLY <2>5, <2>6, <2>7, <2>8, BackedStill
  <2> QED
    BY <2>1, <2>3, <2>4, <2>9 DEF Sound
<1> QED
  BY <1>1, <1>2, <1>3, SideCompacted

\* A side that takes an order at level j, which may be new and empty.
Prepared(side, ls, j, quants) ==
    /\ ls \in Seq(Level) /\ j \in 1 .. Len(ls) /\ Sorted(side, ls) /\ Sound(ls[j], quants)
    /\ \A i \in 1 .. Len(ls) : i # j => ls[i].queue # <<>> /\ Sound(ls[i], quants)
    /\ \A i, h \in 1 .. Len(ls) : i # h => Apart(ls[i].queue, ls[h].queue)

\* A younger order at the tail of that level.
LEMMA SideAppended ==
    ASSUME NEW side \in Sides, NEW ls, NEW j, NEW quants \in Seq(Nat), NEW qty \in Nat, NEW node \in Node,
           Prepared(side, ls, j, quants), node.id = Len(quants) + 1, node.rem = qty, qty > 0, node.ice => node.vis > 0
    PROVE  LET added == ReplaceAt(ls, j, append_order_to_level(ls[j], node))
           IN  added \in Seq(Level) /\ SoundSide(side, added, Append(quants, qty))
<1> USE DEF Prepared
<1>1. PICK m : m = append_order_to_level(ls[j], node)
  OBVIOUS
<1>2. PICK after : after = Append(quants, qty)
  OBVIOUS
<1>3. PICK l : l = ls[j]
  OBVIOUS
<1>4. l \in Level /\ Sound(l, quants)
  BY <1>3, ElementOfSeq
<1>5. /\ m \in Level /\ m.price = l.price /\ m.queue # <<>>
      /\ Sound(m, after)
      /\ \A k \in 1 .. Len(m.queue) :
            m.queue[k].id = node.id \/ \E h \in 1 .. Len(l.queue) : m.queue[k].id = l.queue[h].id
  <2>1. m = append_order_to_level(l, node)
    BY <1>1, <1>3
  <2>2. /\ quants \in Seq(Nat) /\ qty \in Nat /\ node \in Node /\ node.id = Len(quants) + 1
        /\ node.rem = qty /\ qty > 0 /\ (node.ice => node.vis > 0)
    OBVIOUS
  <2> QED
    BY ONLY <1>2, <1>4, <2>1, <2>2, LevelAppended
<1>6. /\ after \in Seq(Nat) /\ Len(quants) \in Nat /\ Len(after) \in Nat /\ Len(after) >= Len(quants)
      /\ \A x \in 1 .. Len(quants) : after[x] = quants[x]
  BY <1>2, AppendProperties, LenProperties
<1>7. ASSUME NEW i \in 1 .. Len(ls), i # j
      PROVE  /\ ls[i].queue # <<>> /\ Sound(ls[i], after)
             /\ Apart(ls[i].queue, m.queue) /\ Apart(m.queue, ls[i].queue)
  <2>1. PICK q : q = ls[i].queue
    OBVIOUS
  <2>2. q # <<>> /\ Sound(ls[i], quants) /\ Backed(q, quants) /\ Apart(l.queue, q) /\ Apart(q, l.queue)
    BY <1>3, <1>7, <2>1 DEF Sound
  <2>3. \A k \in 1 .. Len(q) : Promised(q[k], quants)
    BY <2>2 DEF Backed
  <2>4. \A k \in 1 .. Len(q) : q[k].id \in 1 .. Len(quants)
    BY <2>3 DEF Promised
  <2>5. \A k \in 1 .. Len(q) : q[k].id # node.id
    BY <1>6, <2>4
  <2>6. Away(q, node.id)
    BY <2>5 DEF Away
  <2>7. \A y \in 1 .. Len(quants) : y # node.id => after[y] = quants[y]
    BY <1>6
  <2>8. Backed(q, after)
    BY ONLY <1>6, <2>2, <2>6, <2>7, BackedStill
  <2>9. \A k \in 1 .. Len(q), h \in 1 .. Len(m.queue) : q[k].id # m.queue[h].id
    <3> SUFFICES ASSUME NEW k \in 1 .. Len(q), NEW h \in 1 .. Len(m.queue) PROVE q[k].id # m.queue[h].id
      OBVIOUS
    <3>1. CASE m.queue[h].id = node.id
      BY <2>5, <3>1
    <3>2. CASE m.queue[h].id # node.id
      <4>1. PICK g \in 1 .. Len(l.queue) : m.queue[h].id = l.queue[g].id
        BY <1>5, <3>2
      <4> QED
        BY <2>2, <4>1 DEF Apart, Away
    <3> QED
      BY <3>1, <3>2
  <2>10. Apart(q, m.queue) /\ Apart(m.queue, q)
    BY <2>9 DEF Apart, Away
  <2> QED
    BY <2>1, <2>2, <2>8, <2>10 DEF Sound
<1>8. ReplaceAt(ls, j, m) \in Seq(Level) /\ SoundSide(side, ReplaceAt(ls, j, m), after)
  <2>1. m.price = ls[j].price
    BY <1>3, <1>5
  <2>2. \A i, h \in 1 .. Len(ls) : i # h /\ i # j /\ h # j => Apart(ls[i].queue, ls[h].queue)
    OBVIOUS
  <2> QED
    BY <1>5, <1>7, <2>1, <2>2, SideReplaced
<1> QED
  BY ONLY <1>1, <1>2, <1>8

\* insert_level puts the empty level where the side stays sorted.
LEMMA SideInserted ==
    ASSUME NEW side \in Sides, NEW ls \in Seq(Level), NEW quants, SoundSide(side, ls, quants),
           NEW price \in Prices, \A k \in 1 .. Len(ls) : ls[k].price # price,
           NEW pos \in 1 .. Len(ls) + 1,
           \A k \in 1 .. Len(ls) : k < pos => ~Better(side, price, ls[k].price),
           pos <= Len(ls) => Better(side, price, ls[pos].price),
           NEW new, new = [price |-> price, queue |-> <<>>, volume |-> 0, count |-> 0]
    PROVE  Prepared(side, InsertAt(ls, pos, new), pos, quants)
<1>1. PICK grown : grown = InsertAt(ls, pos, new)
  OBVIOUS
<1>2. PICK n : n = Len(ls)
  OBVIOUS
<1>3. new \in Level /\ new.price = price /\ new.queue = <<>> /\ new.volume = 0 /\ new.count = 0
  <2>1. <<>> \in Seq(Node)
    OBVIOUS
  <2> QED
    BY <2>1 DEF Level
<1>4. /\ n \in Nat /\ pos \in 1 .. n + 1 /\ grown \in Seq(Level) /\ Len(grown) = n + 1
      /\ \A i \in 1 .. n + 1 : grown[i] = IF i < pos THEN ls[i] ELSE IF i = pos THEN new ELSE ls[i - 1]
  <2>1. n \in Nat /\ pos \in 1 .. n + 1
    BY <1>2, LenProperties
  <2>2. ls \in Seq(Level) /\ pos \in 1 .. Len(ls) + 1 /\ new \in Level
    BY <1>3
  <2>3. HasInserted(Level, ls, pos, new, grown)
    BY ONLY <1>1, <2>2, InsertAtIs
  <2> QED
    BY ONLY <1>2, <2>1, <2>3 DEF HasInserted
<1>5. /\ \A i, h \in 1 .. n : i < h => Better(side, ls[i].price, ls[h].price)
      /\ \A i \in 1 .. n : ls[i].queue # <<>> /\ Sound(ls[i], quants)
      /\ \A i, h \in 1 .. n : i # h => Apart(ls[i].queue, ls[h].queue)
      /\ \A i \in 1 .. n : ls[i].price \in Nat /\ ls[i].price # price
      /\ price \in Nat
  BY <1>2, SortedIs, PricesAre, EngineAssumption DEF SoundSide
<1>6. ASSUME NEW k \in 1 .. n, k < pos PROVE Better(side, ls[k].price, price)
  <2>1. ~Better(side, price, ls[k].price)
    BY <1>2, <1>6
  <2> QED
    BY <1>5, <2>1 DEF Better
<1>7. ASSUME NEW k \in 1 .. n, k >= pos PROVE Better(side, price, ls[k].price)
  <2>1. pos \in 1 .. n /\ (k = pos \/ pos < k)
    BY <1>4, <1>7
  <2>2. Better(side, price, ls[pos].price)
    BY <1>2, <2>1
  <2>3. k = pos \/ Better(side, ls[pos].price, ls[k].price)
    BY <1>5, <2>1
  <2> QED
    BY <1>5, <2>1, <2>2, <2>3 DEF Better
<1>8. PICK g : g = [i \in 1 .. n + 1 |-> IF i < pos THEN i ELSE i - 1]
  OBVIOUS
<1>9. \A i \in 1 .. n + 1 : i # pos => /\ g[i] \in 1 .. n /\ grown[i] = ls[g[i]]
                                       /\ (i < pos => g[i] < pos) /\ (i > pos => g[i] >= pos)
  BY <1>4, <1>8
<1>10. \A i, h \in 1 .. n + 1 : i # pos /\ h # pos => (i < h => g[i] < g[h]) /\ (i # h => g[i] # g[h])
  BY <1>4, <1>8
<1>11. grown[pos] = new
  BY <1>4
<1>12. Sorted(side, grown)
  <2>1. ASSUME NEW i \in 1 .. n + 1, NEW h \in 1 .. n + 1, i < h
        PROVE  Better(side, grown[i].price, grown[h].price)
    <3>1. CASE i = pos
      <4>1. h # pos /\ h > pos
        BY <1>4, <2>1, <3>1
      <4>2. g[h] \in 1 .. n /\ grown[h] = ls[g[h]] /\ g[h] >= pos
        BY <1>9, <4>1
      <4> QED
        BY <1>3, <1>7, <1>11, <3>1, <4>2
    <3>2. CASE h = pos
      <4>1. i # pos /\ i < pos
        BY <1>4, <2>1, <3>2
      <4>2. g[i] \in 1 .. n /\ grown[i] = ls[g[i]] /\ g[i] < pos
        BY <1>9, <4>1
      <4> QED
        BY <1>3, <1>6, <1>11, <3>2, <4>2
    <3>3. CASE i # pos /\ h # pos
      <4>1. g[i] \in 1 .. n /\ g[h] \in 1 .. n /\ grown[i] = ls[g[i]] /\ grown[h] = ls[g[h]] /\ g[i] < g[h]
        BY <1>9, <1>10, <2>1, <3>3
      <4> QED
        BY <1>5, <4>1
    <3> QED
      BY <3>1, <3>2, <3>3
  <2> QED
    BY <1>4, <2>1, SortedIs
<1>13. Sound(new, quants)
  <2>1. Len(new.queue) = 0 /\ Total(new.queue) = 0
    BY <1>3, TotalEmpty
  <2> QED
    BY <1>3, <2>1 DEF Sound, Counted, Fifo, Backed
<1>14. \A i \in 1 .. n + 1 : i # pos => grown[i].queue # <<>> /\ Sound(grown[i], quants)
  BY <1>5, <1>9
<1>15. \A q : Apart(new.queue, q) /\ Apart(q, new.queue)
  <2>1. Len(new.queue) = 0
    BY <1>3
  <2> QED
    BY <2>1 DEF Apart, Away
<1>16. ASSUME NEW i \in 1 .. n + 1, NEW h \in 1 .. n + 1, i # h
       PROVE  Apart(grown[i].queue, grown[h].queue)
  <2>1. CASE i = pos \/ h = pos
    BY <1>11, <1>15, <2>1
  <2>2. CASE i # pos /\ h # pos
    <3>1. g[i] \in 1 .. n /\ g[h] \in 1 .. n /\ grown[i] = ls[g[i]] /\ grown[h] = ls[g[h]] /\ g[i] # g[h]
      BY <1>9, <1>10, <1>16, <2>2
    <3> QED
      BY <1>5, <3>1
  <2> QED
    BY <2>1, <2>2
<1>17. /\ grown \in Seq(Level) /\ pos \in 1 .. Len(grown) /\ Sorted(side, grown)
       /\ Sound(grown[pos], quants)
       /\ \A i \in 1 .. Len(grown) : i # pos => grown[i].queue # <<>> /\ Sound(grown[i], quants)
       /\ \A i, h \in 1 .. Len(grown) : i # h => Apart(grown[i].queue, grown[h].queue)
  BY <1>4, <1>11, <1>12, <1>13, <1>14, <1>16
<1> QED
  BY ONLY <1>1, <1>17 DEF Prepared

-----------------------------------------------------------------------------
(* What one turn of the matching loop does to the best level.              *)

LEMMA TailRemoves ==
    ASSUME NEW S, NEW s \in Seq(S), s # <<>>
    PROVE  Tail(s) = RemoveAt(s, 1)
<1>1. PICK t : t = SubSeq(s, 2, Len(s))
  OBVIOUS
<1>2. Tail(s) = t /\ t \in Seq(S)
  BY <1>1, TailIsSubSeq, HeadTailProperties
<1>3. SubSeq(s, 1, 0) = <<>>
  BY SubSeqEmpty
<1>4. <<>> \o t = t
  BY <1>2, ConcatEmptySeq
<1>5. RemoveAt(s, 1) = SubSeq(s, 1, 0) \o t
  <2>1. RemoveAt(s, 1) = SubSeq(s, 1, 1 - 1) \o SubSeq(s, 1 + 1, Len(s))
    BY ONLY Zenon DEF RemoveAt
  <2>2. 1 - 1 = 0 /\ 1 + 1 = 2
    OBVIOUS
  <2> QED
    BY ONLY <1>1, <2>1, <2>2
<1> QED
  BY ONLY <1>2, <1>3, <1>4, <1>5

\* A trade takes something, no more than is wanted and no more than is there;
\* what the maker keeps is a resting order again.
LEMMA MakerGives ==
    ASSUME NEW m \in Node, m.rem > 0, m.ice => m.vis > 0, NEW wanted \in Nat, wanted > 0,
           NEW q, q = Min({wanted, Exposed(m)}), NEW left, left = AfterFill(m, q)
    PROVE  /\ q \in Nat /\ q > 0 /\ q <= wanted /\ q <= m.rem
           /\ left \in Node /\ left.id = m.id /\ left.rem = m.rem - q
           /\ left.rem > 0 => (left.ice => left.vis > 0)
<1>1. m.id \in Nat /\ m.rem \in Nat /\ m.vis \in Int /\ m.ice \in BOOLEAN
  BY DEF Node
<1>2. PICK e : e = Exposed(m)
  OBVIOUS
<1>3. e \in Nat /\ e > 0 /\ e <= m.rem /\ (m.ice => e <= m.vis)
  <2>1. CASE m.ice /\ m.vis < m.rem
    BY <1>1, <1>2, <2>1 DEF Exposed
  <2>2. CASE ~ (m.ice /\ m.vis < m.rem)
    BY <1>1, <1>2, <2>2 DEF Exposed
  <2> QED
    BY <2>1, <2>2
<1>4. q = IF wanted <= e THEN wanted ELSE e
  BY <1>2, <1>3, SmallerOf
<1>5. q \in Nat /\ q > 0 /\ q <= wanted /\ q <= e /\ q <= m.rem
  BY <1>1, <1>3, <1>4
<1>6. PICK v : v = IF ~m.ice THEN m.vis ELSE IF q = e THEN m.rem - q ELSE m.vis - q
  OBVIOUS
<1>7. left = [m EXCEPT !.rem = @ - q, !.vis = v]
  BY <1>2, <1>6 DEF AfterFill
<1>8. /\ left.id = m.id /\ left.ice = m.ice /\ left.rem = m.rem - q /\ left.vis = v
      /\ left = [id |-> left.id, rem |-> left.rem, vis |-> left.vis, ice |-> left.ice]
  BY <1>7 DEF Node
<1>9. v \in Int /\ m.rem - q \in Nat
  BY <1>1, <1>5, <1>6
<1>10. left \in Node
  BY <1>1, <1>8, <1>9 DEF Node
<1>11. ASSUME left.rem > 0, left.ice PROVE left.vis > 0
  <2>1. m.ice /\ m.rem - q > 0
    BY <1>8, <1>11
  <2>2. CASE q = e
    BY <1>6, <1>8, <2>1, <2>2
  <2>3. CASE q # e
    BY <1>1, <1>3, <1>5, <1>6, <1>8, <2>1, <2>3
  <2> QED
    BY <2>2, <2>3
<1> QED
  BY <1>5, <1>8, <1>10, <1>11

\* The level after a trade with its head.
Traded(l, left, q) ==
    [l EXCEPT !.queue = IF left.rem <= 0 THEN Tail(@) ELSE <<left>> \o Tail(@),
              !.volume = @ - q,
              !.count = IF left.rem <= 0 THEN @ - 1 ELSE @]

\* Every order of the level but a head with nothing left is still there.
Stays(queue, after, left) ==
    \A k \in 1 .. Len(queue) : k # 1 \/ left.rem > 0 => \E h \in 1 .. Len(after) : after[h].id = queue[k].id

LEMMA LevelTraded ==
    ASSUME NEW l \in Level, NEW quants \in Seq(Nat), NEW after \in Seq(Nat), l.queue # <<>>, Sound(l, quants),
           NEW m, m = Head(l.queue), NEW left \in Node, NEW q \in Nat, q <= m.rem,
           left.id = m.id, left.rem = m.rem - q, left.rem > 0 => (left.ice => left.vis > 0),
           ElseSame(quants, after, m.id), after[m.id] = m.rem - q
    PROVE  /\ Traded(l, left, q) \in Level /\ Traded(l, left, q).price = l.price
           /\ Sound(Traded(l, left, q), after) /\ Within(Traded(l, left, q).queue, l.queue)
           /\ Stays(l.queue, Traded(l, left, q).queue, left)
<1>1. PICK t : t = Traded(l, left, q)
  OBVIOUS
<1>2. PICK u : u = l.queue
  OBVIOUS
<1>3. /\ u \in Seq(Node) /\ u # <<>> /\ Len(u) \in Nat /\ 1 \in 1 .. Len(u) /\ u[1] = m
      /\ l.price \in Prices /\ l.volume \in Int /\ l.count \in Int
  <2>1. u \in Seq(Node) /\ Len(u) \in Nat /\ l.price \in Prices /\ l.volume \in Int /\ l.count \in Int
    BY <1>2, QueueType
  <2>2. u # <<>> /\ m = Head(u)
    BY <1>2
  <2> QED
    BY <2>1, <2>2
<1>4. m \in Node /\ m.id \in Nat /\ m.rem \in Nat
  <2>1. m \in Node
    BY <1>3, ElementOfSeq
  <2> QED
    BY <2>1 DEF Node
<1>5. Promised(m, quants)
  BY <1>2, <1>3 DEF Sound, Backed
<1>6. /\ m.id \in 1 .. Len(quants) /\ Len(after) = Len(quants) /\ after[m.id] = m.rem - q
      /\ \A y \in 1 .. Len(quants) : y # m.id => after[y] = quants[y]
  BY <1>5 DEF Promised, ElseSame
<1>7. t.price = l.price /\ t.volume = l.volume - q
  BY <1>1 DEF Traded, Level
<1>8. t = [price |-> t.price, queue |-> t.queue, volume |-> t.volume, count |-> t.count]
  BY <1>1 DEF Traded, Level
<1>9. Tail(u) \in Seq(Node) /\ Tail(u) = RemoveAt(u, 1)
  BY <1>3, TailRemoves, HeadTailProperties
<1>10. CASE left.rem <= 0
  <2>1. t.queue = RemoveAt(u, 1) /\ t.count = l.count - 1 /\ t.queue \in Seq(Node)
    BY <1>1, <1>2, <1>9, <1>10 DEF Traded, Level
  <2>2. q = m.rem
    BY <1>4, <1>10
  <2>3. t \in Level
    <3>1. t.price \in Prices /\ t.volume \in Int /\ t.count \in Int
      BY ONLY <1>3, <1>7, <2>1, q \in Nat
    <3> QED
      BY ONLY <1>8, <2>1, <3>1 DEF Level
  <2>4. Sound(t, after) /\ Within(t.queue, l.queue)
    <3>1. 1 \in 1 .. Len(l.queue) /\ l.queue[1] = m
      BY <1>2, <1>3
    <3>2. t.queue = RemoveAt(l.queue, 1) /\ t.volume = l.volume - l.queue[1].rem
      BY <1>2, <1>7, <2>1, <2>2, <3>1
    <3>3. \A y \in 1 .. Len(quants) : y # l.queue[1].id => after[y] = quants[y]
      BY <1>6, <3>1
    <3>4. l \in Level /\ quants \in Seq(Nat) /\ after \in Seq(Nat) /\ Sound(l, quants)
      OBVIOUS
    <3> QED
      BY ONLY <1>6, <2>1, <2>3, <3>1, <3>2, <3>3, <3>4, LevelUnlinked
  <2>5. Stays(u, t.queue, left)
    <3>1. ~ (left.rem > 0)
      BY <1>4, <1>10
    <3>2. /\ Len(t.queue) = Len(u) - 1
          /\ \A j \in 1 .. Len(u) - 1 : t.queue[j] = IF j < 1 THEN u[j] ELSE u[j + 1]
      BY ONLY <1>3, <2>1, RemoveAtIs
    <3>3. ASSUME NEW k \in 1 .. Len(u), k # 1 PROVE \E h \in 1 .. Len(t.queue) : t.queue[h].id = u[k].id
      <4>1. k - 1 \in 1 .. Len(u) - 1 /\ (k - 1) + 1 = k /\ ~ (k - 1 < 1)
        BY ONLY <1>3, <3>3
      <4>2. k - 1 \in 1 .. Len(t.queue) /\ t.queue[k - 1] = u[k]
        BY ONLY <3>2, <4>1
      <4> QED
        BY ONLY <4>2
    <3> QED
      BY ONLY <3>1, <3>3 DEF Stays
  <2> QED
    BY ONLY <1>1, <1>2, <1>7, <2>3, <2>4, <2>5
<1>11. CASE ~ (left.rem <= 0)
  <2>1. t.queue = <<left>> \o Tail(u) /\ t.count = l.count
    BY <1>1, <1>2, <1>11 DEF Traded, Level
  <2>2. /\ Len(Tail(u)) = Len(u) - 1
        /\ \A k \in 1 .. Len(u) - 1 : Tail(u)[k] = u[k + 1]
    BY <1>3, HeadTailProperties
  <2>3. /\ t.queue \in Seq(Node) /\ Len(t.queue) = Len(u)
        /\ \A k \in 1 .. Len(u) : t.queue[k] = IF k = 1 THEN left ELSE u[k]
    <3>1. PICK v : v = Tail(u)
      OBVIOUS
    <3>2. PICK w : w = <<left>>
      OBVIOUS
    <3>3. w \in Seq(Node) /\ Len(w) = 1 /\ w[1] = left
      BY <3>2
    <3>4. /\ w \o v \in Seq(Node) /\ Len(w \o v) = Len(w) + Len(v)
          /\ \A k \in 1 .. Len(w) + Len(v) : (w \o v)[k] = IF k <= Len(w) THEN w[k] ELSE v[k - Len(w)]
      BY <1>9, <3>1, <3>3, ConcatProperties
    <3>5. t.queue = w \o v /\ Len(v) = Len(u) - 1 /\ \A k \in 1 .. Len(u) - 1 : v[k] = u[k + 1]
      BY <2>1, <2>2, <3>1, <3>2
    <3>6. ASSUME NEW k \in 1 .. Len(u) PROVE (w \o v)[k] = IF k = 1 THEN left ELSE u[k]
      <4>1. CASE k = 1
        BY <1>3, <3>3, <3>4, <3>5, <4>1
      <4>2. CASE k # 1
        <5>1. k - 1 \in 1 .. Len(u) - 1 /\ (k - 1) + 1 = k
          BY <1>3, <4>2
        <5>2. k \in 1 .. Len(w) + Len(v) /\ ~ (k <= Len(w)) /\ k - Len(w) = k - 1
          BY <1>3, <3>3, <3>5, <4>2
        <5>3. (w \o v)[k] = v[k - 1]
          BY ONLY <3>4, <5>2
        <5> QED
          BY ONLY <3>5, <4>2, <5>1, <5>3
      <4> QED
        BY <4>1, <4>2
    <3>7. Len(w \o v) = Len(u)
      BY <1>3, <3>3, <3>4, <3>5
    <3> QED
      BY ONLY <3>4, <3>5, <3>6, <3>7
  <2>4. t \in Level
    <3>1. t.price \in Prices /\ t.volume \in Int /\ t.count \in Int
      BY ONLY <1>3, <1>7, <2>1, q \in Nat
    <3> QED
      BY ONLY <1>8, <2>3, <3>1 DEF Level
  <2>5. Promised(left, after)
    <3>1. left.id \in 1 .. Len(after) /\ left.rem = after[left.id]
      BY <1>6
    <3>2. left.rem > 0
      BY <1>4, <1>11
    <3> QED
      BY <3>1, <3>2 DEF Promised
  <2>6. Sound(t, after) /\ Within(t.queue, l.queue)
    <3>1. 1 \in 1 .. Len(l.queue) /\ l.queue[1] = m /\ Len(t.queue) = Len(l.queue)
      BY <1>2, <1>3, <2>3
    <3>2. \A k \in 1 .. Len(l.queue) : t.queue[k] = IF k = 1 THEN left ELSE l.queue[k]
      BY <1>2, <2>3
    <3>3. \A y \in 1 .. Len(quants) : y # l.queue[1].id => after[y] = quants[y]
      BY <1>6, <3>1
    <3>4. l \in Level /\ quants \in Seq(Nat) /\ after \in Seq(Nat) /\ left \in Node /\ Sound(l, quants)
      OBVIOUS
    <3>5. left.id = l.queue[1].id /\ t.volume = (l.volume + left.rem) - l.queue[1].rem
      <4>1. left.id = m.id /\ left.rem = m.rem - q /\ q \in Nat
        OBVIOUS
      <4>2. l.volume - q = (l.volume + (m.rem - q)) - m.rem
        BY ONLY <1>3, <1>4, <4>1
      <4> QED
        BY ONLY <1>7, <3>1, <4>1, <4>2
    <3> QED
      BY ONLY <1>6, <2>1, <2>4, <2>5, <3>1, <3>2, <3>3, <3>4, <3>5, LevelFilled
  <2>7. Stays(u, t.queue, left)
    <3>1. left.id = u[1].id
      BY <1>3
    <3>2. \A k \in 1 .. Len(u) : k \in 1 .. Len(t.queue) /\ t.queue[k].id = u[k].id
      BY ONLY <2>3, <3>1
    <3> QED
      BY ONLY <3>2 DEF Stays
  <2> QED
    BY ONLY <1>1, <1>2, <1>7, <2>4, <2>6, <2>7
<1> QED
  BY <1>10, <1>11

-----------------------------------------------------------------------------
(* The inductive invariant.                                                *)

Order == [side: Sides, type: Types, price: Nat, qty: Nat, rem: Nat]
Trade == [maker: Nat, price: Nat, qty: Nat]

BookTypes == book \in [Sides -> Seq(Level)] /\ owed \in Seq(Nat)

CallTypes ==
    /\ pool \in 0 .. PoolCap
    /\ taker \in Order /\ taker.rem <= taker.qty
    /\ phase \in {"idle", "walking"} /\ outcome \in Outcomes
    /\ trades \in Seq(Trade) /\ Len(trades) <= TradesCap
    /\ overflow \in BOOLEAN /\ (overflow => phase = "idle")

\* The worker loads one side only.
OneSided == \E s \in Sides : book[s] = <<>>

SoundBook == \A s \in Sides : SoundSide(s, book[s], owed)

EngineInv == BookTypes /\ CallTypes /\ OneSided /\ (~overflow => SoundBook)

LEMMA OppositeIs ==
    ASSUME NEW s \in Sides
    PROVE  /\ Opposite(s) \in Sides /\ Opposite(s) # s /\ Opposite(Opposite(s)) = s
           /\ \A t \in Sides : t = s \/ t = Opposite(s)
BY DEF Sides, Opposite

LEMMA EmptySide == ASSUME NEW s \in Sides, NEW quants PROVE <<>> \in Seq(Level) /\ SoundSide(s, <<>>, quants)
<1>1. <<>> \in Seq(Level) /\ Len(<<>>) = 0
  OBVIOUS
<1>2. Sorted(s, <<>>)
  BY <1>1 DEF Sorted, Ranked
<1> QED
  BY <1>1, <1>2 DEF SoundSide

\* The side the worker loaded changes, the other one stays empty.
LEMMA BookNext ==
    ASSUME BookTypes, NEW side \in Sides, book[Opposite(side)] = <<>>, NEW ls \in Seq(Level),
           book' = [book EXCEPT ![side] = ls]
    PROVE  /\ book' \in [Sides -> Seq(Level)] /\ OneSided'
           /\ SoundSide(side, ls, owed') => SoundBook'
<1>1. book \in [Sides -> Seq(Level)]
  BY DEF BookTypes
<1>2. /\ Opposite(side) \in Sides /\ Opposite(side) # side
      /\ \A t \in Sides : t = side \/ t = Opposite(side)
  BY OppositeIs
<1>3. book' \in [Sides -> Seq(Level)] /\ book'[side] = ls /\ book'[Opposite(side)] = <<>>
  BY <1>1, <1>2
<1>4. OneSided'
  BY <1>2, <1>3 DEF OneSided
<1>5. ASSUME SoundSide(side, ls, owed') PROVE SoundBook'
  <2>1. SoundSide(Opposite(side), <<>>, owed')
    BY <1>2, EmptySide
  <2> QED
    BY <1>2, <1>3, <1>5, <2>1 DEF SoundBook
<1> QED
  BY <1>3, <1>4, <1>5

LEMMA InitInv == Init => EngineInv
<1> SUFFICES ASSUME Init PROVE EngineInv
  OBVIOUS
<1>1. BookTypes
  BY DEF Init, BookTypes
<1>2. CallTypes
  <2>1. NoTaker \in Order /\ NoTaker.rem <= NoTaker.qty
    BY DEF NoTaker, Order, Sides, Types, NoPrice
  <2>2. <<>> \in Seq(Trade) /\ Len(<<>>) = 0
    OBVIOUS
  <2>3. 0 \in 0 .. PoolCap /\ 0 <= TradesCap /\ "ok" \in Outcomes
    BY EngineAssumption DEF Outcomes
  <2>4. pool = 0 /\ taker = NoTaker /\ phase = "idle" /\ trades = <<>> /\ outcome = "ok" /\ overflow = FALSE
    BY DEF Init
  <2> QED
    BY ONLY <2>1, <2>2, <2>3, <2>4 DEF CallTypes
<1>3. \A s \in Sides : book[s] = <<>>
  BY DEF Init
<1>4. OneSided
  BY <1>3 DEF OneSided, Sides
<1>5. SoundBook
  BY <1>3, EmptySide DEF SoundBook
<1> QED
  BY <1>1, <1>2, <1>4, <1>5 DEF EngineInv

LEMMA ForgetTypes ==
    ASSUME CallTypes, ForgetResult, pool' \in 0 .. PoolCap, phase' = phase, overflow' = overflow \/ overflow' = FALSE
    PROVE  CallTypes'
<1>1. NoTaker \in Order /\ NoTaker.rem <= NoTaker.qty
  BY DEF NoTaker, Order, Sides, Types, NoPrice
<1>2. <<>> \in Seq(Trade) /\ Len(<<>>) = 0
  OBVIOUS
<1>3. taker' = NoTaker /\ trades' = <<>> /\ outcome' = "ok"
  BY DEF ForgetResult
<1>4. 0 <= TradesCap /\ "ok" \in Outcomes
  BY EngineAssumption DEF Outcomes
<1>5. taker' \in Order /\ taker'.rem <= taker'.qty /\ outcome' \in Outcomes
  BY ONLY <1>1, <1>3, <1>4
<1>6. trades' \in Seq(Trade) /\ Len(trades') <= TradesCap
  BY ONLY <1>2, <1>3, <1>4
<1>7. overflow' \in BOOLEAN /\ (overflow' => phase' = "idle") /\ phase' \in {"idle", "walking"}
  <2>1. overflow \in BOOLEAN /\ (overflow => phase = "idle") /\ phase \in {"idle", "walking"}
    BY DEF CallTypes
  <2>2. phase' = phase
    OBVIOUS
  <2>3. CASE overflow' = overflow
    BY ONLY <2>1, <2>2, <2>3
  <2>4. CASE overflow' = FALSE
    BY ONLY <2>1, <2>2, <2>4
  <2> QED
    BY <2>3, <2>4
<1>8. pool' \in 0 .. PoolCap
  OBVIOUS
<1> QED
  BY ONLY <1>5, <1>6, <1>7, <1>8 DEF CallTypes

LEMMA ResetInv == ASSUME EngineInv, reset PROVE EngineInv'
<1>1. pool' = 0 /\ owed' = <<>> /\ overflow' = FALSE /\ ForgetResult /\ phase' = phase
  BY DEF reset
<1>2. book' = [s \in Sides |-> <<>>]
  BY DEF reset
<1>3. \A s \in Sides : book'[s] = <<>>
  BY <1>2
<1>4. BookTypes'
  BY <1>1, <1>2 DEF BookTypes
<1>5. CallTypes'
  <2>1. CallTypes /\ pool' \in 0 .. PoolCap
    BY <1>1, EngineAssumption DEF EngineInv
  <2> QED
    BY ONLY <1>1, <2>1, ForgetTypes
<1>6. OneSided'
  BY <1>3 DEF OneSided, Sides
<1>7. SoundBook'
  BY <1>3, EmptySide DEF SoundBook
<1> QED
  BY <1>4, <1>5, <1>6, <1>7 DEF EngineInv

\* Where insert_level's loop stops.
LEMMA PositionIs ==
    ASSUME NEW side \in Sides, NEW price, book[side] \in Seq(Level)
    PROVE  /\ insert_position(side, price) \in 1 .. Len(book[side]) + 1
           /\ \A k \in 1 .. Len(book[side]) :
                 k < insert_position(side, price) => ~Better(side, price, book[side][k].price)
           /\ insert_position(side, price) <= Len(book[side]) =>
                 Better(side, price, book[side][insert_position(side, price)].price)
<1>1. PICK ls : ls = book[side]
  OBVIOUS
<1>2. PICK n : n = Len(ls)
  OBVIOUS
<1>3. n \in Nat
  BY <1>1, <1>2, LenProperties
<1>4. PICK worse : worse = {k \in 1 .. n : Better(side, price, ls[k].price)}
  OBVIOUS
<1>5. PICK pos : pos = IF worse = {} THEN n + 1 ELSE Min(worse)
  OBVIOUS
<1>6. worse # {} => Min(worse) \in worse /\ \A k \in worse : Min(worse) <= k
  <2> SUFFICES ASSUME worse # {} PROVE Min(worse) \in worse /\ \A k \in worse : Min(worse) <= k
    OBVIOUS
  <2>1. worse \subseteq Nat
    BY <1>3, <1>4
  <2>2. PICK x \in worse : \A k \in worse : ~ (k < x)
    BY <2>1, LeastNumber
  <2>3. \A k \in worse : x <= k
    BY <2>1, <2>2
  <2>4. \E y \in worse : \A k \in worse : y <= k
    BY <2>3
  <2> QED
    BY ONLY <2>4 DEF Min
<1>7. insert_position(side, price) = pos
  <2>1. PICK first : first = SelectInSeq(ls, LAMBDA l : Better(side, price, l.price))
    OBVIOUS
  <2>2. first = IF worse # {} THEN Min(worse) ELSE 0
    BY ONLY <2>1, <1>2, <1>4 DEF SelectInSeq
  <2>3. insert_position(side, price) = IF first = 0 THEN n + 1 ELSE first
    BY ONLY <1>1, <1>2, <2>1 DEF insert_position
  <2>4. worse # {} => Min(worse) # 0
    BY <1>3, <1>4, <1>6
  <2> QED
    BY ONLY <1>5, <2>2, <2>3, <2>4
<1>8. pos \in 1 .. n + 1
  BY <1>3, <1>4, <1>5, <1>6
<1>9. ASSUME NEW k \in 1 .. n, k < pos PROVE ~Better(side, price, ls[k].price)
  <2>1. CASE worse = {}
    BY <1>4, <2>1
  <2>2. CASE worse # {}
    <3>1. k \notin worse
      BY <1>3, <1>4, <1>5, <1>6, <1>9, <2>2
    <3> QED
      BY <1>4, <3>1
  <2> QED
    BY <2>1, <2>2
<1>10. pos <= n => Better(side, price, ls[pos].price)
  BY <1>3, <1>4, <1>5, <1>6
<1> QED
  BY ONLY <1>1, <1>2, <1>7, <1>8, <1>9, <1>10

LEMMA AddInv ==
    ASSUME EngineInv, NEW side \in Sides, NEW price \in Prices, NEW qty \in Quantities,
           NEW ice \in BOOLEAN, NEW vis \in Quantities, add_passive_order(side, price, qty, ice, vis)
    PROVE  EngineInv'
<1>1. PICK ls : ls = book[side]
  OBVIOUS
<1>2. PICK node : node = [id |-> Len(owed) + 1, rem |-> qty, vis |-> IF ice THEN vis ELSE qty, ice |-> ice]
  OBVIOUS
<1>3. PICK i : i = find_level_idx(side, price)
  OBVIOUS
<1>4. PICK pos : pos = insert_position(side, price)
  OBVIOUS
<1>5. PICK new : new = [price |-> price, queue |-> <<>>, volume |-> 0, count |-> 0]
  OBVIOUS
<1>6. PICK grown : grown = IF i = 0 THEN InsertAt(ls, pos, new) ELSE ls
  OBVIOUS
<1>7. PICK j : j = IF i = 0 THEN pos ELSE i
  OBVIOUS
<1>8. /\ Ready /\ book[Opposite(side)] = <<>> /\ pool < PoolCap /\ pool' = pool + 1
      /\ owed' = Append(owed, qty) /\ ForgetResult /\ phase' = phase /\ overflow' = overflow
  BY DEF add_passive_order
<1>9. book' = [book EXCEPT ![side] = ReplaceAt(grown, j, append_order_to_level(grown[j], node))]
  BY ONLY <1>1, <1>2, <1>3, <1>4, <1>5, <1>6, <1>7, add_passive_order(side, price, qty, ice, vis), Zenon
     DEF add_passive_order, insert_level
<1>10. /\ book \in [Sides -> Seq(Level)] /\ owed \in Seq(Nat) /\ ls \in Seq(Level)
       /\ SoundSide(side, ls, owed) /\ Sorted(side, ls)
  BY <1>1, <1>8 DEF EngineInv, BookTypes, SoundBook, SoundSide, Ready
<1>11. qty \in Nat /\ qty > 0 /\ vis \in Nat /\ vis > 0 /\ Len(owed) \in Nat
  BY <1>10, EngineAssumption, LenProperties
<1>12. node \in Node /\ node.id = Len(owed) + 1 /\ node.rem = qty /\ (node.ice => node.vis > 0)
  <2>1. CASE ice
    BY <1>2, <1>11, <2>1 DEF Node
  <2>2. CASE ~ice
    BY <1>2, <1>11, <2>2 DEF Node
  <2> QED
    BY <2>1, <2>2
<1>13. /\ i \in 0 .. Len(ls)
       /\ i = 0 => \A k \in 1 .. Len(ls) : ls[k].price # price
  BY <1>1, <1>3, <1>10, FindLevel
<1>14. Prepared(side, grown, j, owed)
  <2>1. CASE i = 0
    <3>1. /\ pos \in 1 .. Len(ls) + 1
          /\ \A k \in 1 .. Len(ls) : k < pos => ~Better(side, price, ls[k].price)
          /\ pos <= Len(ls) => Better(side, price, ls[pos].price)
      <4>1. book[side] \in Seq(Level)
        BY <1>1, <1>10
      <4> QED
        BY ONLY <1>1, <1>4, <4>1, side \in Sides, PositionIs
    <3>2. grown = InsertAt(ls, pos, new) /\ j = pos
      BY <1>6, <1>7, <2>1
    <3>3. \A k \in 1 .. Len(ls) : ls[k].price # price
      BY <1>13, <2>1
    <3>4. ls \in Seq(Level) /\ SoundSide(side, ls, owed)
      BY <1>10
    <3> QED
      BY ONLY <1>5, <3>1, <3>2, <3>3, <3>4, side \in Sides, price \in Prices, SideInserted
  <2>2. CASE i # 0
    <3>1. grown = ls /\ j = i /\ i \in 1 .. Len(ls)
      <4>1. Len(ls) \in Nat
        BY <1>10, LenProperties
      <4> QED
        BY <1>6, <1>7, <1>13, <2>2, <4>1
    <3>2. /\ \A k \in 1 .. Len(ls) : ls[k].queue # <<>> /\ Sound(ls[k], owed)
          /\ \A k, h \in 1 .. Len(ls) : k # h => Apart(ls[k].queue, ls[h].queue)
      BY <1>10 DEF SoundSide
    <3> QED
      BY ONLY <1>10, <3>1, <3>2 DEF Prepared
  <2> QED
    BY <2>1, <2>2
<1>15. PICK added : added = ReplaceAt(grown, j, append_order_to_level(grown[j], node))
  OBVIOUS
<1>16. added \in Seq(Level) /\ SoundSide(side, added, Append(owed, qty))
  <2>1. owed \in Seq(Nat) /\ qty \in Nat /\ qty > 0
    BY <1>10, <1>11
  <2> QED
    BY ONLY <1>12, <1>14, <1>15, <2>1, side \in Sides, SideAppended
<1>17. book' = [book EXCEPT ![side] = added]
  BY ONLY <1>9, <1>15
<1>18. book' \in [Sides -> Seq(Level)] /\ OneSided' /\ SoundBook'
  <2>1. BookTypes
    BY DEF EngineInv
  <2>2. SoundSide(side, added, owed') /\ added \in Seq(Level)
    BY <1>8, <1>16
  <2>3. book[Opposite(side)] = <<>>
    BY <1>8
  <2> QED
    BY <1>17, <2>1, <2>2, <2>3, BookNext
<1>19. owed' \in Seq(Nat)
  BY <1>8, <1>10, <1>11, AppendProperties
<1>20. CallTypes'
  <2>1. CallTypes
    BY DEF EngineInv
  <2>2. pool' \in 0 .. PoolCap
    BY <1>8, <2>1, EngineAssumption DEF CallTypes
  <2> QED
    BY ONLY <1>8, <2>1, <2>2, ForgetTypes
<1> QED
  BY <1>18, <1>19, <1>20 DEF EngineInv, BookTypes

LEMMA CancelInv ==
    ASSUME EngineInv, NEW id \in DOMAIN owed, NEW side \in Sides, NEW price \in Prices,
           cancel_order(id, side, price)
    PROVE  EngineInv'
<1>1. PICK ls : ls = book[side]
  OBVIOUS
<1>2. PICK i : i = find_level_idx(side, price)
  OBVIOUS
<1>3. PICK l : l = ls[i]
  OBVIOUS
<1>4. PICK k : k = SelectInSeq(l.queue, LAMBDA n : n.id = id)
  OBVIOUS
<1>5. PICK m : m = [l EXCEPT !.queue = RemoveAt(@, k), !.volume = @ - l.queue[k].rem, !.count = @ - 1]
  OBVIOUS
<1>6. /\ Ready /\ i # 0 /\ k # 0 /\ ForgetResult /\ owed' = [owed EXCEPT ![id] = 0]
      /\ pool' = pool /\ phase' = phase /\ overflow' = overflow
      /\ book' = [book EXCEPT ![side] = maybe_compact_level(ls, i, m)]
  <2>1. LET x == find_level_idx(side, price)
            y == book[side][x]
            z == SelectInSeq(y.queue, LAMBDA n : n.id = id)
        IN  /\ Ready /\ x # 0 /\ z # 0 /\ ForgetResult /\ owed' = [owed EXCEPT ![id] = 0]
            /\ pool' = pool /\ phase' = phase /\ overflow' = overflow
            /\ book' = [book EXCEPT ![side] = maybe_compact_level(book[side], x,
                          [y EXCEPT !.queue = RemoveAt(@, z), !.volume = @ - y.queue[z].rem, !.count = @ - 1])]
    BY ONLY cancel_order(id, side, price), Zenon DEF cancel_order
  <2> QED
    BY ONLY <1>1, <1>2, <1>3, <1>4, <1>5, <2>1, Zenon
<1>7. /\ book \in [Sides -> Seq(Level)] /\ owed \in Seq(Nat) /\ ls \in Seq(Level)
      /\ SoundSide(side, ls, owed) /\ Sorted(side, ls)
  BY <1>1, <1>6 DEF EngineInv, BookTypes, SoundBook, SoundSide, Ready
<1>8. Len(ls) \in Nat /\ DOMAIN owed = 1 .. Len(owed) /\ Len(owed) \in Nat
  BY <1>7, LenProperties
<1>9. i \in 0 .. Len(ls)
  BY <1>1, <1>2, <1>7, FindLevel
<1>10. i \in 1 .. Len(ls)
  BY <1>6, <1>8, <1>9
<1>11. l \in Level /\ Sound(l, owed) /\ ls[i] = l
  BY <1>3, <1>7, <1>10, ElementOfSeq DEF SoundSide
<1>12. PICK u : u = l.queue
  OBVIOUS
<1>13. u \in Seq(Node) /\ Len(u) \in Nat /\ l.price \in Prices /\ l.volume \in Int /\ l.count \in Int
  BY <1>11, <1>12, QueueType
<1>14. k \in 1 .. Len(u) /\ u[k].id = id
  <2>1. PICK hits : hits = {n \in 1 .. Len(u) : u[n].id = id}
    OBVIOUS
  <2>2. k = IF hits # {} THEN Min(hits) ELSE 0
    BY ONLY <1>4, <1>12, <2>1 DEF SelectInSeq
  <2>3. hits # {} /\ k = Min(hits)
    BY ONLY <1>6, <2>2
  <2>4. hits \subseteq Nat
    BY <1>13, <2>1
  <2>5. PICK x \in hits : \A y \in hits : ~ (y < x)
    BY <2>3, <2>4, LeastNumber
  <2>6. \A y \in hits : x <= y
    BY <2>4, <2>5
  <2>7. \E z \in hits : \A y \in hits : z <= y
    BY <2>6
  <2>8. Min(hits) \in hits
    BY ONLY <2>7 DEF Min
  <2> QED
    BY ONLY <2>1, <2>3, <2>8
<1>15. u[k].rem \in Int
  <2>1. u[k] \in Node
    BY <1>13, <1>14, ElementOfSeq
  <2> QED
    BY <2>1 DEF Node
<1>16. m.queue = RemoveAt(u, k) /\ m.volume = l.volume - u[k].rem /\ m.count = l.count - 1 /\ m.price = l.price
  BY <1>5, <1>11, <1>12 DEF Level
<1>17. m \in Level
  <2>1. m = [price |-> m.price, queue |-> m.queue, volume |-> m.volume, count |-> m.count]
    BY <1>5, <1>11 DEF Level
  <2>2. RemoveAt(u, k) \in Seq(Node)
    BY <1>13, <1>14, RemoveAtIs
  <2>3. m.queue \in Seq(Node) /\ m.price \in Prices /\ m.volume \in Int /\ m.count \in Int
    BY <1>13, <1>15, <1>16, <2>2
  <2> QED
    BY ONLY <2>1, <2>3 DEF Level
<1>18. PICK after : after = [owed EXCEPT ![id] = 0]
  OBVIOUS
<1>19. /\ after \in Seq(Nat) /\ Len(after) = Len(owed)
       /\ \A y \in 1 .. Len(owed) : y # id => after[y] = owed[y]
  BY <1>7, <1>8, <1>18, ExceptSeq
<1>20. Sound(m, after) /\ Within(m.queue, l.queue)
  <2>1. k \in 1 .. Len(l.queue) /\ l.queue[k].id = id
    BY <1>12, <1>14
  <2>2. m.queue = RemoveAt(l.queue, k) /\ m.volume = l.volume - l.queue[k].rem
    BY <1>12, <1>16
  <2>3. \A y \in 1 .. Len(owed) : y # l.queue[k].id => after[y] = owed[y]
    BY <1>19, <2>1
  <2>4. /\ owed \in Seq(Nat) /\ after \in Seq(Nat) /\ Len(after) = Len(owed) /\ m.count = l.count - 1
        /\ l \in Level /\ m \in Level /\ Sound(l, owed)
    BY <1>7, <1>11, <1>16, <1>17, <1>19
  <2> QED
    BY ONLY <2>1, <2>2, <2>3, <2>4, LevelUnlinked
<1>21. PICK left : left = maybe_compact_level(ls, i, m)
  OBVIOUS
<1>22. left \in Seq(Level) /\ SoundSide(side, left, after)
  <2>1. m.price = ls[i].price /\ Within(m.queue, ls[i].queue)
    BY <1>11, <1>16, <1>20
  <2>2. k \in 1 .. Len(ls[i].queue) /\ id = ls[i].queue[k].id
    BY <1>11, <1>12, <1>14
  <2>3. /\ ls \in Seq(Level) /\ owed \in Seq(Nat) /\ SoundSide(side, ls, owed) /\ side \in Sides
        /\ Sound(m, after) /\ m \in Level /\ i \in 1 .. Len(ls)
    BY <1>7, <1>10, <1>17, <1>20
  <2>4. ElseSame(owed, after, id)
    BY <1>7, <1>19 DEF ElseSame
  <2>5. \E x \in 1 .. Len(ls[i].queue) : id = ls[i].queue[x].id
    BY <2>2
  <2> QED
    BY ONLY <1>21, <2>1, <2>3, <2>4, <2>5, SideChanged
<1>23. book[Opposite(side)] = <<>>
  <2>1. ls # <<>>
    BY <1>10
  <2>2. PICK s \in Sides : book[s] = <<>>
    BY DEF EngineInv, OneSided
  <2> QED
    BY <1>1, <2>1, <2>2, OppositeIs
<1>24. book' \in [Sides -> Seq(Level)] /\ OneSided' /\ SoundBook'
  <2>1. BookTypes
    BY DEF EngineInv
  <2>2. SoundSide(side, left, owed') /\ left \in Seq(Level)
    BY <1>6, <1>18, <1>22
  <2>3. book' = [book EXCEPT ![side] = left]
    BY ONLY <1>6, <1>21
  <2> QED
    BY <1>23, <2>1, <2>2, <2>3, BookNext
<1>25. CallTypes'
  <2>1. CallTypes
    BY DEF EngineInv
  <2>2. pool' \in 0 .. PoolCap
    BY <1>6, <2>1 DEF CallTypes
  <2> QED
    BY ONLY <1>6, <2>1, <2>2, ForgetTypes
<1> QED
  BY <1>6, <1>18, <1>19, <1>24, <1>25 DEF EngineInv, BookTypes

LEMMA MatchInv == ASSUME EngineInv, NEW o \in Takers, match_active_order(o) PROVE EngineInv'
<1>1. /\ trades' = <<>> /\ taker' = o /\ book' = book /\ pool' = pool /\ owed' = owed /\ overflow' = overflow
      /\ Ready
  BY DEF match_active_order
<1>2. /\ outcome' \in {"ok", "post_only_cross", "fok_rejected"}
      /\ phase' = phase \/ phase' = "walking"
  BY DEF match_active_order
<1>3. BookTypes' /\ OneSided'
  BY <1>1 DEF EngineInv, BookTypes, OneSided
<1>4. SoundBook'
  <2>1. SoundBook
    BY <1>1 DEF EngineInv, Ready
  <2> QED
    BY <1>1, <2>1 DEF SoundBook
<1>5. o \in Order /\ o.rem <= o.qty
  <2>1. /\ o \in [side: Sides, type: Types, price: Prices \cup {NoPrice}, qty: Quantities, rem: Quantities]
        /\ o.rem = o.qty
    BY DEF Takers
  <2>2. Prices \cup {NoPrice} \subseteq Nat /\ Quantities \subseteq Nat
    BY EngineAssumption DEF NoPrice
  <2>3. o.qty \in Nat
    BY <2>1, <2>2
  <2> QED
    BY <2>1, <2>2, <2>3 DEF Order
<1>6. CallTypes'
  <2>1. pool' \in 0 .. PoolCap /\ overflow' \in BOOLEAN /\ (overflow' => FALSE)
    BY <1>1 DEF EngineInv, CallTypes, Ready
  <2>2. phase' \in {"idle", "walking"} /\ outcome' \in Outcomes
    BY <1>1, <1>2 DEF Ready, Outcomes
  <2>3. <<>> \in Seq(Trade) /\ Len(<<>>) = 0 /\ 0 <= TradesCap
    BY EngineAssumption
  <2>4. trades' \in Seq(Trade) /\ Len(trades') <= TradesCap
    BY ONLY <1>1, <2>3
  <2>5. taker' \in Order /\ taker'.rem <= taker'.qty
    BY ONLY <1>1, <1>5
  <2> QED
    BY ONLY <2>1, <2>2, <2>4, <2>5 DEF CallTypes
<1> QED
  BY <1>3, <1>4, <1>6 DEF EngineInv

\* What the loop has at hand: the best level, its oldest order, what it takes.
BestLevel == book[Opp][1]
BestMaker == Head(BestLevel.queue)
Given == Min({taker.rem, Exposed(BestMaker)})

LEMMA AtHand ==
    ASSUME EngineInv, phase = "walking", WantsBest
    PROVE  /\ SoundBook /\ Opp \in Sides /\ book[Opp] \in Seq(Level) /\ book[Opp] # <<>>
           /\ book[Opposite(Opp)] = <<>>
           /\ 1 \in 1 .. Len(book[Opp]) /\ BestLevel \in Level /\ BestLevel.queue # <<>> /\ Sound(BestLevel, owed)
           /\ 1 \in 1 .. Len(BestLevel.queue) /\ BestMaker = BestLevel.queue[1]
           /\ BestMaker \in Node /\ Promised(BestMaker, owed)
           /\ taker \in Order /\ taker.rem \in Nat /\ taker.rem > 0
<1>1. ~overflow /\ SoundBook
  BY DEF EngineInv, CallTypes
<1>2. taker \in Order
  BY DEF EngineInv, CallTypes
<1>3. taker.side \in Sides /\ taker.rem \in Nat /\ taker.rem > 0
  BY <1>2 DEF Order, WantsBest
<1>4. Opp \in Sides /\ \A t \in Sides : t = Opp \/ t = Opposite(Opp)
  BY <1>3, OppositeIs DEF Opp
<1>5. PICK ls : ls = book[Opp]
  OBVIOUS
<1>6. ls \in Seq(Level) /\ ls # <<>>
  BY <1>4, <1>5 DEF EngineInv, BookTypes, WantsBest
<1>7. 1 \in 1 .. Len(ls)
  BY <1>6
<1>8. SoundSide(Opp, ls, owed)
  BY <1>1, <1>4, <1>5 DEF SoundBook
<1>9. PICK l : l = BestLevel
  OBVIOUS
<1>10. l = ls[1]
  BY <1>5, <1>9 DEF BestLevel
<1>11. l \in Level /\ l.queue # <<>> /\ Sound(l, owed)
  BY <1>6, <1>7, <1>8, <1>10, ElementOfSeq DEF SoundSide
<1>12. PICK u : u = l.queue
  OBVIOUS
<1>13. u \in Seq(Node) /\ u # <<>>
  BY <1>11, <1>12, QueueType
<1>14. 1 \in 1 .. Len(u) /\ Head(u) = u[1] /\ u[1] \in Node
  BY <1>13
<1>15. Promised(u[1], owed)
  BY <1>11, <1>12, <1>14 DEF Sound, Backed
<1>16. BestMaker = Head(u)
  BY ONLY <1>9, <1>12 DEF BestMaker
<1>17. book[Opposite(Opp)] = <<>>
  <2>1. PICK s \in Sides : book[s] = <<>>
    BY DEF EngineInv, OneSided
  <2> QED
    BY <1>4, <1>5, <1>6, <2>1
<1> QED
  BY ONLY <1>1, <1>2, <1>3, <1>4, <1>5, <1>6, <1>7, <1>9, <1>11, <1>12, <1>14, <1>15, <1>16, <1>17

\* One turn of the loop: maker m of level l gives q, is left with `left`, and the
\* levels ls become new.
Trading(ls, l, m, q, left, t, after, new) ==
    /\ ls = book[Opp] /\ after = owed' /\ new = maybe_compact_level(ls, 1, t)
    /\ taker' = [taker EXCEPT !.rem = @ - q]
    /\ trades' = Append(trades, [maker |-> m.id, price |-> l.price, qty |-> q])
    /\ owed' = [owed EXCEPT ![m.id] = @ - q]
    /\ book' = [book EXCEPT ![Opp] = maybe_compact_level(@, 1, t)]
    /\ SoundBook /\ Opp \in Sides /\ ls \in Seq(Level) /\ book[Opposite(Opp)] = <<>>
    /\ 1 \in 1 .. Len(ls) /\ l = ls[1] /\ l \in Level /\ l.queue # <<>> /\ Sound(l, owed)
    /\ 1 \in 1 .. Len(l.queue) /\ m = l.queue[1] /\ m \in Node /\ Promised(m, owed)
    /\ taker \in Order /\ taker.rem \in Nat /\ taker.rem > 0
    /\ q \in Nat /\ q > 0 /\ q <= taker.rem /\ q <= m.rem /\ left.rem = m.rem - q
    /\ ElseSame(owed, after, m.id) /\ after[m.id] = m.rem - q
    /\ t \in Level /\ t.price = l.price /\ Sound(t, after)
    /\ Within(t.queue, l.queue) /\ Stays(l.queue, t.queue, left)
    /\ new \in Seq(Level) /\ SoundSide(Opp, new, after)

LEMMA FillStep ==
    ASSUME EngineInv, FillMaker
    PROVE  \E ls, l, m, q, left, t, after, new : Trading(ls, l, m, q, left, t, after, new)
<1>1. PICK ls : ls = book[Opp]
  OBVIOUS
<1>2. PICK l : l = BestLevel
  OBVIOUS
<1>3. PICK m : m = BestMaker
  OBVIOUS
<1>4. PICK q : q = Given
  OBVIOUS
<1>5. PICK left : left = AfterFill(m, q)
  OBVIOUS
<1>6. PICK t : t = Traded(l, left, q)
  OBVIOUS
<1>7. /\ phase = "walking" /\ WantsBest /\ ~BufferFull
      /\ pool' = pool /\ phase' = phase /\ outcome' = outcome /\ overflow' = overflow
  BY DEF FillMaker
<1>8. /\ taker' = [taker EXCEPT !.rem = @ - q]
      /\ trades' = Append(trades, [maker |-> m.id, price |-> l.price, qty |-> q])
      /\ owed' = [owed EXCEPT ![m.id] = @ - q]
      /\ book' = [book EXCEPT ![Opp] = maybe_compact_level(@, 1, t)]
  <2>1. /\ taker' = [taker EXCEPT !.rem = @ - Given]
        /\ trades' = Append(trades, [maker |-> BestMaker.id, price |-> BestLevel.price, qty |-> Given])
        /\ owed' = [owed EXCEPT ![BestMaker.id] = @ - Given]
        /\ book' = [book EXCEPT ![Opp] = maybe_compact_level(@, 1, Traded(BestLevel, AfterFill(BestMaker, Given), Given))]
    BY ONLY FillMaker, Zenon DEF FillMaker, Given, BestMaker, BestLevel, Traded
  <2> QED
    BY ONLY <1>2, <1>3, <1>4, <1>5, <1>6, <2>1
<1>9. /\ SoundBook /\ Opp \in Sides /\ ls \in Seq(Level) /\ book[Opposite(Opp)] = <<>>
      /\ 1 \in 1 .. Len(ls) /\ l = ls[1] /\ l \in Level /\ l.queue # <<>> /\ Sound(l, owed)
      /\ 1 \in 1 .. Len(l.queue) /\ m = l.queue[1] /\ m = Head(l.queue)
      /\ m \in Node /\ Promised(m, owed)
      /\ taker \in Order /\ taker.rem \in Nat /\ taker.rem > 0
  <2>1. l = ls[1] /\ m = Head(l.queue)
    BY ONLY <1>1, <1>2, <1>3 DEF BestLevel, BestMaker
  <2>2. /\ SoundBook /\ Opp \in Sides /\ book[Opp] \in Seq(Level) /\ book[Opp] # <<>>
        /\ book[Opposite(Opp)] = <<>>
        /\ 1 \in 1 .. Len(book[Opp]) /\ BestLevel \in Level /\ BestLevel.queue # <<>> /\ Sound(BestLevel, owed)
        /\ 1 \in 1 .. Len(BestLevel.queue) /\ BestMaker = BestLevel.queue[1]
        /\ BestMaker \in Node /\ Promised(BestMaker, owed)
        /\ taker \in Order /\ taker.rem \in Nat /\ taker.rem > 0
    BY <1>7, AtHand
  <2> QED
    BY ONLY <1>1, <1>2, <1>3, <2>1, <2>2
<1>10. q = Min({taker.rem, Exposed(m)})
  BY ONLY <1>3, <1>4 DEF Given
<1>11. /\ q \in Nat /\ q > 0 /\ q <= taker.rem /\ q <= m.rem
       /\ left \in Node /\ left.id = m.id /\ left.rem = m.rem - q
       /\ left.rem > 0 => (left.ice => left.vis > 0)
  <2>1. m \in Node /\ m.rem > 0 /\ (m.ice => m.vis > 0) /\ taker.rem \in Nat /\ taker.rem > 0
    BY <1>9 DEF Promised
  <2> QED
    BY ONLY <1>5, <1>10, <2>1, MakerGives
<1>12. owed \in Seq(Nat) /\ book \in [Sides -> Seq(Level)] /\ SoundSide(Opp, ls, owed)
  BY <1>1, <1>9 DEF EngineInv, BookTypes, SoundBook
<1>13. m.id \in 1 .. Len(owed) /\ owed[m.id] = m.rem /\ m.rem \in Nat
  <2>1. m.id \in 1 .. Len(owed) /\ owed[m.id] = m.rem
    BY <1>9 DEF Promised
  <2> QED
    BY <1>12, <2>1, ElementOfSeq
<1>14. PICK after : after = owed'
  OBVIOUS
<1>15. ElseSame(owed, after, m.id) /\ after[m.id] = m.rem - q
  <2>1. owed[m.id] - q \in Nat
    BY <1>11, <1>13
  <2>2. after = [owed EXCEPT ![m.id] = owed[m.id] - q]
    BY ONLY <1>8, <1>14
  <2>3. /\ after \in Seq(Nat) /\ Len(after) = Len(owed)
        /\ \A y \in 1 .. Len(owed) : after[y] = IF y = m.id THEN owed[m.id] - q ELSE owed[y]
    BY ONLY <1>12, <1>13, <2>1, <2>2, ExceptSeq
  <2> QED
    BY ONLY <1>12, <1>13, <2>3 DEF ElseSame
<1>16. /\ t \in Level /\ t.price = l.price /\ Sound(t, after) /\ Within(t.queue, l.queue)
       /\ Stays(l.queue, t.queue, left)
  <2>1. after \in Seq(Nat)
    BY ONLY <1>15 DEF ElseSame
  <2>2. l \in Level /\ l.queue # <<>> /\ Sound(l, owed) /\ m = Head(l.queue) /\ owed \in Seq(Nat)
    BY ONLY <1>9, <1>12
  <2> QED
    BY ONLY <1>6, <1>11, <1>15, <2>1, <2>2, LevelTraded
<1>17. PICK new : new = maybe_compact_level(ls, 1, t)
  OBVIOUS
<1>18. new \in Seq(Level) /\ SoundSide(Opp, new, after)
  <2>1. PICK j : j = 1
    OBVIOUS
  <2>2. /\ Opp \in Sides /\ ls \in Seq(Level) /\ j \in 1 .. Len(ls) /\ t \in Level /\ t.price = ls[j].price
        /\ Sound(t, after) /\ Within(t.queue, ls[j].queue) /\ SoundSide(Opp, ls, owed)
    BY ONLY <1>9, <1>12, <1>16, <2>1
  <2>3. \E x \in 1 .. Len(ls[j].queue) : m.id = ls[j].queue[x].id
    BY ONLY <1>9, <2>1
  <2>4. /\ maybe_compact_level(ls, j, t) \in Seq(Level)
        /\ SoundSide(Opp, maybe_compact_level(ls, j, t), after)
    BY ONLY <1>15, <2>2, <2>3, SideChanged
  <2> QED
    BY ONLY <1>17, <2>1, <2>4
<1>19. Trading(ls, l, m, q, left, t, after, new)
  BY ONLY <1>1, <1>8, <1>9, <1>11, <1>14, <1>15, <1>16, <1>17, <1>18, Zenon DEF Trading
<1> QED
  BY ONLY <1>19, Zenon

LEMMA FillInv == ASSUME EngineInv, FillMaker PROVE EngineInv'
<1>1. PICK ls, l, m, q, left, t, after, new : Trading(ls, l, m, q, left, t, after, new)
  BY FillStep
<1>2. /\ ~BufferFull
      /\ pool' = pool /\ phase' = phase /\ outcome' = outcome /\ overflow' = overflow
  BY DEF FillMaker
<1>3. /\ taker' = [taker EXCEPT !.rem = @ - q]
      /\ trades' = Append(trades, [maker |-> m.id, price |-> l.price, qty |-> q])
      /\ book' = [book EXCEPT ![Opp] = maybe_compact_level(@, 1, t)]
  BY ONLY <1>1, Zenon DEF Trading
<1>4. /\ SoundBook /\ Opp \in Sides /\ book[Opposite(Opp)] = <<>> /\ l \in Level /\ m \in Node
      /\ taker \in Order /\ taker.rem \in Nat
  BY ONLY <1>1, Zenon DEF Trading
<1>5. q \in Nat /\ q > 0 /\ q <= taker.rem
  BY ONLY <1>1, Zenon DEF Trading
<1>6. after = owed' /\ ls = book[Opp] /\ new = maybe_compact_level(ls, 1, t)
  BY ONLY <1>1, Zenon DEF Trading
<1>7. ElseSame(owed, after, m.id)
  BY ONLY <1>1, Zenon DEF Trading
<1>8. new \in Seq(Level) /\ SoundSide(Opp, new, after)
  BY ONLY <1>1, Zenon DEF Trading
<1>9. book' \in [Sides -> Seq(Level)] /\ OneSided' /\ SoundBook'
  <2>1. BookTypes
    BY DEF EngineInv
  <2>2. PICK side : side = Opp
    OBVIOUS
  <2>3. book' = [book EXCEPT ![side] = new]
    <3>1. book' = [book EXCEPT ![side] = maybe_compact_level(book[side], 1, t)]
      BY ONLY <1>3, <2>2
    <3> QED
      BY ONLY <1>6, <2>2, <3>1
  <2>4. side \in Sides /\ new \in Seq(Level) /\ book[Opposite(side)] = <<>> /\ SoundSide(side, new, owed')
    BY ONLY <1>4, <1>6, <1>8, <2>2
  <2> QED
    BY ONLY <2>1, <2>3, <2>4, BookNext
<1>10. CallTypes'
  <2>1. CallTypes
    BY DEF EngineInv
  <2>2. taker' \in Order /\ taker'.rem = taker.rem - q /\ taker'.qty = taker.qty
    <3>1. taker.rem - q \in Nat
      BY <1>4, <1>5
    <3> QED
      BY ONLY <1>3, <1>4, <3>1 DEF Order
  <2>3. taker'.rem <= taker'.qty
    <3>1. taker.rem <= taker.qty /\ taker.rem \in Nat /\ taker.qty \in Nat
      BY <1>4, <2>1 DEF CallTypes, Order
    <3> QED
      BY ONLY <1>5, <2>2, <3>1
  <2>4. PICK trade : trade = [maker |-> m.id, price |-> l.price, qty |-> q]
    OBVIOUS
  <2>5. trade \in Trade
    <3>1. m.id \in Nat /\ l.price \in Nat
      BY <1>4, QueueType DEF Node
    <3> QED
      BY ONLY <1>5, <2>4, <3>1 DEF Trade
  <2>6. trades \in Seq(Trade) /\ Len(trades) < TradesCap
    <3>1. trades \in Seq(Trade)
      BY <2>1 DEF CallTypes
    <3>2. Len(trades) \in Nat /\ ~ (Len(trades) >= TradesCap)
      BY <1>2, <3>1, LenProperties DEF BufferFull
    <3> QED
      BY <3>1, <3>2, EngineAssumption
  <2>7. trades' \in Seq(Trade) /\ Len(trades') = Len(trades) + 1
    BY ONLY <1>3, <2>4, <2>5, <2>6, AppendProperties
  <2>8. Len(trades') <= TradesCap
    BY <2>6, <2>7, LenProperties, EngineAssumption
  <2>9. /\ pool' \in 0 .. PoolCap /\ phase' \in {"idle", "walking"} /\ outcome' \in Outcomes
        /\ overflow' \in BOOLEAN /\ (overflow' => phase' = "idle")
    BY ONLY <1>2, <2>1 DEF CallTypes
  <2> QED
    BY ONLY <2>2, <2>3, <2>7, <2>8, <2>9 DEF CallTypes
<1>11. owed' \in Seq(Nat)
  BY ONLY <1>6, <1>7 DEF ElseSame
<1> QED
  BY ONLY <1>9, <1>10, <1>11 DEF EngineInv, BookTypes

\* The level after a turn that finds the trades buffer full.
Clipped(l, left, q) == [l EXCEPT !.queue = ReplaceAt(@, 1, left), !.volume = @ - q]

LEMMA OverflowInv == ASSUME EngineInv, TradesOverflow PROVE EngineInv'
<1>1. PICK ls : ls = book[Opp]
  OBVIOUS
<1>2. PICK l : l = BestLevel
  OBVIOUS
<1>3. PICK m : m = BestMaker
  OBVIOUS
<1>4. PICK q : q = Given
  OBVIOUS
<1>5. PICK left : left = AfterFill(m, q)
  OBVIOUS
<1>6. /\ phase = "walking" /\ WantsBest
      /\ pool' = pool /\ phase' = "idle" /\ outcome' = "no_liquidity" /\ overflow' = TRUE
      /\ owed' = owed /\ trades' = trades
  BY DEF TradesOverflow
<1>7. /\ taker' = [taker EXCEPT !.rem = @ - q]
      /\ book' = [book EXCEPT ![Opp] = ReplaceAt(@, 1, Clipped(l, left, q))]
  <2>1. /\ taker' = [taker EXCEPT !.rem = @ - Given]
        /\ book' = [book EXCEPT ![Opp] = ReplaceAt(@, 1, Clipped(BestLevel, AfterFill(BestMaker, Given), Given))]
    BY ONLY TradesOverflow, Zenon DEF TradesOverflow, Given, BestMaker, BestLevel, Clipped
  <2> QED
    BY ONLY <1>2, <1>3, <1>4, <1>5, <2>1
<1>8. /\ Opp \in Sides /\ ls \in Seq(Level) /\ book[Opposite(Opp)] = <<>>
      /\ 1 \in 1 .. Len(ls) /\ l = ls[1] /\ l \in Level
      /\ 1 \in 1 .. Len(l.queue) /\ m \in Node /\ Promised(m, owed)
      /\ taker \in Order /\ taker.rem \in Nat /\ taker.rem > 0
  <2>1. l = ls[1]
    BY ONLY <1>1, <1>2 DEF BestLevel
  <2>2. /\ Opp \in Sides /\ book[Opp] \in Seq(Level) /\ book[Opposite(Opp)] = <<>>
        /\ 1 \in 1 .. Len(book[Opp]) /\ BestLevel \in Level
        /\ 1 \in 1 .. Len(BestLevel.queue) /\ BestMaker \in Node /\ Promised(BestMaker, owed)
        /\ taker \in Order /\ taker.rem \in Nat /\ taker.rem > 0
    BY <1>6, AtHand
  <2> QED
    BY ONLY <1>1, <1>2, <1>3, <2>1, <2>2
<1>9. q \in Nat /\ q <= taker.rem /\ left \in Node
  <2>1. m \in Node /\ m.rem > 0 /\ (m.ice => m.vis > 0) /\ taker.rem \in Nat /\ taker.rem > 0
    BY <1>8 DEF Promised
  <2>2. q = Min({taker.rem, Exposed(m)})
    BY ONLY <1>3, <1>4 DEF Given
  <2> QED
    BY ONLY <1>5, <2>1, <2>2, MakerGives
<1>10. PICK t : t = Clipped(l, left, q)
  OBVIOUS
<1>11. t \in Level
  <2>1. PICK u : u = [l.queue EXCEPT ![1] = left]
    OBVIOUS
  <2>2. l.queue \in Seq(Node) /\ l.volume \in Int /\ l.price \in Prices /\ l.count \in Int
    BY <1>8, QueueType
  <2>3. u \in Seq(Node)
    BY ONLY <1>8, <1>9, <2>1, <2>2, ExceptSeq
  <2>4. t = [price |-> l.price, queue |-> u, volume |-> l.volume - q, count |-> l.count]
    BY ONLY <1>8, <1>10, <2>1 DEF Level, Clipped, ReplaceAt
  <2>5. l.volume - q \in Int
    BY <1>9, <2>2
  <2> QED
    BY ONLY <2>2, <2>3, <2>4, <2>5 DEF Level
<1>12. PICK new : new = ReplaceAt(ls, 1, t)
  OBVIOUS
<1>13. new \in Seq(Level)
  BY ONLY <1>8, <1>11, <1>12, ExceptSeq DEF ReplaceAt
<1>14. PICK side : side = Opp
  OBVIOUS
<1>15. book' = [book EXCEPT ![side] = new]
  <2>1. book' = [book EXCEPT ![side] = ReplaceAt(book[side], 1, t)]
    BY ONLY <1>7, <1>10, <1>14
  <2> QED
    BY ONLY <1>1, <1>12, <1>14, <2>1
<1>16. book' \in [Sides -> Seq(Level)] /\ OneSided'
  <2>1. BookTypes
    BY DEF EngineInv
  <2>2. side \in Sides /\ book[Opposite(side)] = <<>>
    BY ONLY <1>8, <1>14
  <2> QED
    BY ONLY <1>13, <1>15, <2>1, <2>2, BookNext
<1>17. CallTypes'
  <2>1. CallTypes
    BY DEF EngineInv
  <2>2. taker' \in Order /\ taker'.rem = taker.rem - q /\ taker'.qty = taker.qty
    <3>1. taker.rem - q \in Nat
      BY <1>8, <1>9
    <3> QED
      BY ONLY <1>7, <1>8, <3>1 DEF Order
  <2>3. taker'.rem <= taker'.qty
    <3>1. taker.rem <= taker.qty /\ taker.rem \in Nat /\ taker.qty \in Nat
      BY <1>8, <2>1 DEF CallTypes, Order
    <3> QED
      BY ONLY <1>9, <2>2, <3>1
  <2>4. /\ pool' \in 0 .. PoolCap /\ phase' \in {"idle", "walking"} /\ outcome' \in Outcomes
        /\ trades' \in Seq(Trade) /\ Len(trades') <= TradesCap
        /\ overflow' \in BOOLEAN /\ (overflow' => phase' = "idle")
    BY ONLY <1>6, <2>1 DEF CallTypes, Outcomes
  <2> QED
    BY ONLY <2>2, <2>3, <2>4 DEF CallTypes
<1>18. owed' \in Seq(Nat)
  BY <1>6 DEF EngineInv, BookTypes
<1>19. overflow'
  BY <1>6
<1> QED
  BY ONLY <1>16, <1>17, <1>18, <1>19 DEF EngineInv, BookTypes

\* Steps that leave the book alone.
LEMMA SameBook ==
    ASSUME EngineInv, book' = book, owed' = owed, overflow' = overflow, CallTypes'
    PROVE  EngineInv'
<1>1. BookTypes' /\ OneSided'
  BY DEF EngineInv, BookTypes, OneSided
<1>2. ~overflow' => SoundBook'
  BY DEF EngineInv, SoundBook
<1> QED
  BY <1>1, <1>2 DEF EngineInv

LEMMA FinishInv == ASSUME EngineInv, FinishMatch PROVE EngineInv'
<1>1. /\ phase' = "idle" /\ outcome' \in {"ok", "no_liquidity"}
      /\ book' = book /\ pool' = pool /\ owed' = owed /\ taker' = taker /\ trades' = trades /\ overflow' = overflow
  BY DEF FinishMatch, ReportOutcome
<1>2. CallTypes'
  BY <1>1 DEF EngineInv, CallTypes, Outcomes
<1> QED
  BY <1>1, <1>2, SameBook

LEMMA StepInv == EngineInv /\ [Next]_vars => EngineInv'
<1> SUFFICES ASSUME EngineInv, [Next]_vars PROVE EngineInv'
  OBVIOUS
<1>1. CASE reset
  BY <1>1, ResetInv
<1>2. ASSUME NEW side \in Sides, NEW price \in Prices, NEW qty \in Quantities,
             \/ add_passive_order(side, price, qty, FALSE, qty)
             \/ \E vis \in Quantities : vis < qty /\ add_passive_order(side, price, qty, TRUE, vis)
      PROVE  EngineInv'
  <2>1. CASE add_passive_order(side, price, qty, FALSE, qty)
    BY <2>1, AddInv
  <2>2. ASSUME NEW vis \in Quantities, add_passive_order(side, price, qty, TRUE, vis) PROVE EngineInv'
    BY <2>2, AddInv
  <2> QED
    BY <1>2, <2>1, <2>2
<1>3. ASSUME NEW id \in DOMAIN owed, NEW side \in Sides, NEW price \in Prices, cancel_order(id, side, price)
      PROVE  EngineInv'
  BY <1>3, CancelInv
<1>4. ASSUME NEW o \in Takers, match_active_order(o) PROVE EngineInv'
  BY <1>4, MatchInv
<1>5. CASE FillMaker
  BY <1>5, FillInv
<1>6. CASE TradesOverflow
  BY <1>6, OverflowInv
<1>7. CASE FinishMatch
  BY <1>7, FinishInv
<1>8. CASE UNCHANGED vars
  <2>1. /\ book' = book /\ pool' = pool /\ owed' = owed /\ taker' = taker /\ phase' = phase
        /\ trades' = trades /\ outcome' = outcome /\ overflow' = overflow
    BY <1>8 DEF vars
  <2>2. CallTypes'
    BY <2>1 DEF EngineInv, CallTypes
  <2> QED
    BY <2>1, <2>2, SameBook
<1> QED
  BY <1>1, <1>2, <1>3, <1>4, <1>5, <1>6, <1>7, <1>8 DEF Next

\* The engine always has its types (every field of every node, the pool and the
\* trades buffer within their capacities), and every state reached satisfies the
\* inductive invariant.
THEOREM EngineInvariant == Spec => []EngineInv
BY InitInv, StepInv, PTL DEF Spec

\* Between any two trades, whatever orders were added, canceled and matched and
\* however many levels there are, each side of the engine's book is sorted best
\* first with no empty level, total_volume and order_count are exact, and every
\* order has exactly what it was added with minus its trades.
THEOREM BookStaysWellFormed == Spec => []BookWellFormed
<1>1. EngineInv => BookWellFormed
  <2> SUFFICES ASSUME EngineInv PROVE BookWellFormed
    OBVIOUS
  <2>1. ASSUME NEW s \in Sides
        PROVE  book[s] \in Seq(Level) /\ DOMAIN book[s] = 1 .. Len(book[s]) /\ Len(book[s]) \in Nat
               /\ \A i \in 1 .. Len(book[s]) : book[s][i] \in Level
    <3>1. book[s] \in Seq(Level)
      BY DEF EngineInv, BookTypes
    <3> QED
      BY <3>1, LenProperties, ElementOfSeq
  <2>2. TypeOK
    <3>1. CallTypes
      BY DEF EngineInv
    <3>2. taker.rem \in 0 .. taker.qty
      BY <3>1 DEF CallTypes, Order
    <3>3. \A s \in Sides : \A i \in DOMAIN book[s] : book[s][i] \in Level
      BY <2>1
    <3> QED
      BY ONLY <3>1, <3>2, <3>3 DEF TypeOK, CallTypes
  <2>3. ASSUME ~overflow, NEW s \in Sides, NEW i \in DOMAIN book[s]
        PROVE  LET levels == book[s]
                   l == levels[i]
               IN  /\ i > 1 => Better(s, levels[i - 1].price, l.price)
                   /\ l.queue # <<>> /\ l.count = Len(l.queue)
                   /\ l.volume = SumFunction([k \in DOMAIN l.queue |-> l.queue[k].rem])
                   /\ \A k \in DOMAIN l.queue : l.queue[k].rem > 0 /\ l.queue[k].rem = owed[l.queue[k].id]
    <3>1. PICK ls : ls = book[s]
      OBVIOUS
    <3>2. PICK l : l = ls[i]
      OBVIOUS
    <3>3. i \in 1 .. Len(ls) /\ Len(ls) \in Nat /\ ls \in Seq(Level) /\ l \in Level
      BY <2>1, <3>1, <3>2
    <3>4. SoundSide(s, ls, owed)
      BY <2>3, <3>1 DEF EngineInv, SoundBook
    <3>5. i > 1 => Better(s, ls[i - 1].price, l.price)
      <4>1. \A j, h \in 1 .. Len(ls) : j < h => Better(s, ls[j].price, ls[h].price)
        BY <3>3, <3>4, SortedIs DEF SoundSide
      <4>2. i > 1 => i - 1 \in 1 .. Len(ls) /\ i - 1 < i
        BY <3>3
      <4> QED
        BY ONLY <3>2, <3>3, <4>1, <4>2
    <3>6. l.queue # <<>> /\ Sound(l, owed)
      BY <3>2, <3>3, <3>4 DEF SoundSide
    <3>7. l.count = Len(l.queue) /\ l.volume = Total(l.queue) /\ Backed(l.queue, owed)
      BY <3>6 DEF Sound, Counted
    <3>8. DOMAIN l.queue = 1 .. Len(l.queue)
      BY <3>3, QueueType
    <3>9. \A k \in DOMAIN l.queue : l.queue[k].rem > 0 /\ l.queue[k].rem = owed[l.queue[k].id]
      BY ONLY <3>7, <3>8 DEF Backed, Promised
    <3>10. l.volume = SumFunction([k \in DOMAIN l.queue |-> l.queue[k].rem])
      BY ONLY <3>7 DEF Total
    <3> QED
      BY ONLY <3>1, <3>2, <3>5, <3>6, <3>7, <3>9, <3>10
  <2> QED
    BY ONLY <2>2, <2>3, Zenon DEF BookWellFormed
<1> QED
  BY <1>1, EngineInvariant, PTL

-----------------------------------------------------------------------------
(* The resting orders of a side, as one queue: FoldLeft goes through the   *)
(* levels in order, and what it computes lists every order once.           *)

Entry(l, b) == [id |-> l.queue[b].id, price |-> l.price, qty |-> l.queue[b].rem]
Entries(l) == [i \in DOMAIN l.queue |-> [id |-> l.queue[i].id, price |-> l.price, qty |-> l.queue[i].rem]]
IsListing(ls, S, g) ==
    g = [s \in SUBSET S |-> IF s = {} THEN <<>> ELSE g[s \ {Max(s)}] \o Entries(ls[Max(s)])]
Listing(ls, S) == CHOOSE g : IsListing(ls, S, g)

LEMMA QueueIsListing ==
    ASSUME NEW side
    PROVE  QueueOf(side) = Listing(book[side], DOMAIN book[side])[DOMAIN book[side]]
BY Zenon DEF QueueOf, FoldLeft, MapThenFoldSet, Listing, IsListing, Entries

LEMMA TopIn ==
    ASSUME NEW s, IsFiniteSet(s), s \subseteq Nat, s # {}
    PROVE  Max(s) \in s
<1>1. s \subseteq Int
  OBVIOUS
<1>2. \E n \in s : \A k \in s : n >= k
  BY ONLY <1>1, IsFiniteSet(s), s # {}, GreatestNumber
<1> QED
  BY ONLY <1>2 DEF Max

ListedAt(ls, g, s) == g[s] = IF s = {} THEN <<>> ELSE g[s \ {Max(s)}] \o Entries(ls[Max(s)])

LEMMA ListingAt ==
    ASSUME NEW ls, NEW S, NEW g, IsListing(ls, S, g), NEW s \in SUBSET S
    PROVE  ListedAt(ls, g, s)
<1> DEFINE G == [t \in SUBSET S |-> IF t = {} THEN <<>> ELSE g[t \ {Max(t)}] \o Entries(ls[Max(t)])]
<1>1. g = G
  BY DEF IsListing
<1>2. G[s] = IF s = {} THEN <<>> ELSE g[s \ {Max(s)}] \o Entries(ls[Max(s)])
  OBVIOUS
<1> QED
  BY ONLY <1>1, <1>2 DEF ListedAt

\* Two listings agree where both are defined.
Numbers(S) == IsFiniteSet(S) /\ S \subseteq Nat
Inside(U, S) == U \in SUBSET S
Agree(g, h, U) == g[U] = h[U]

LEMMA ListingUnique ==
    ASSUME NEW ls, NEW S, NEW T, NEW g, NEW h, NEW U, Numbers(S), Inside(U, S), Inside(U, T),
           IsListing(ls, S, g), IsListing(ls, T, h)
    PROVE  Agree(g, h, U)
<1> USE DEF Numbers, Inside, Agree
<1> DEFINE Bad == {V \in SUBSET U : g[V] # h[V]}
<1> SUFFICES ASSUME Bad # {}
             PROVE  FALSE
  OBVIOUS
<1>1. IsFiniteSet(U) /\ Bad \subseteq SUBSET U
  BY FS_Subset
<1>2. PICK V \in Bad : \A x \in V : V \ {x} \notin Bad
  <2> HIDE DEF Bad
  <2> QED
    BY <1>1, SmallestSubset
<1>3. V \in SUBSET S /\ V \in SUBSET T /\ g[V] # h[V] /\ IsFiniteSet(V) /\ V \subseteq Nat
  BY <1>1, <1>2, FS_Subset
<1>4. ListedAt(ls, g, V) /\ ListedAt(ls, h, V)
  BY <1>3, ListingAt
<1>5. /\ g[V] = IF V = {} THEN <<>> ELSE g[V \ {Max(V)}] \o Entries(ls[Max(V)])
      /\ h[V] = IF V = {} THEN <<>> ELSE h[V \ {Max(V)}] \o Entries(ls[Max(V)])
  BY ONLY <1>4, Zenon DEF ListedAt
<1>6. V # {} => g[V \ {Max(V)}] = h[V \ {Max(V)}]
  <2> SUFFICES ASSUME V # {} PROVE g[V \ {Max(V)}] = h[V \ {Max(V)}]
    OBVIOUS
  <2>1. PICK x : x = Max(V)
    OBVIOUS
  <2>2. x \in V
    BY ONLY <1>3, <2>1, V # {}, TopIn
  <2>3. V \ {x} \notin Bad /\ V \ {x} \in SUBSET U
    BY <1>2, <2>2
  <2> QED
    BY <2>1, <2>3
<1> QED
  BY ONLY <1>3, <1>5, <1>6

LEMMA ListingExists ==
    ASSUME NEW ls, NEW S, IsFiniteSet(S), S \subseteq Nat
    PROVE  IsListing(ls, S, Listing(ls, S))
<1> DEFINE Ok(U) == \E g : IsListing(ls, U, g)
           Bad == {T \in SUBSET S : \E U \in SUBSET T : ~Ok(U)}
<1> SUFFICES ASSUME Bad # {}
             PROVE  FALSE
  <2>1. Bad = {} => Ok(S)
    OBVIOUS
  <2> QED
    BY <2>1 DEF Listing
<1>1. PICK T \in Bad : \A x \in T : T \ {x} \notin Bad
  <2> Bad \subseteq SUBSET S
    OBVIOUS
  <2> HIDE DEF Bad
  <2> QED
    BY SmallestSubset
<1>2. \A U \in SUBSET T : U # T => Ok(U)
  <2> SUFFICES ASSUME NEW U \in SUBSET T, U # T PROVE Ok(U)
    OBVIOUS
  <2>1. PICK x \in T : x \notin U
    OBVIOUS
  <2>2. T \ {x} \in SUBSET S /\ U \in SUBSET (T \ {x})
    BY <1>1, <2>1
  <2>3. T \ {x} \notin Bad
    BY <1>1
  <2> QED
    BY <2>2, <2>3
<1>3. \A U \in SUBSET T : U # T => IsListing(ls, U, Listing(ls, U))
  BY <1>2 DEF Listing
<1>4. ~Ok(T)
  BY <1>1, <1>2
<1>5. IsFiniteSet(T) /\ T \subseteq Nat
  BY <1>1, FS_Subset
<1>6. \A U \in SUBSET T : IsFiniteSet(U) /\ U \subseteq Nat /\ (U # {} => Max(U) \in U)
  BY <1>5, FS_Subset, TopIn
<1> DEFINE whole(U) == Listing(ls, U)[U]
           top == IF T = {} THEN <<>> ELSE whole(T \ {Max(T)}) \o Entries(ls[Max(T)])
<1>7. PICK g : g = [U \in SUBSET T |-> IF U = T THEN top ELSE whole(U)]
  OBVIOUS
<1>8. \A U \in SUBSET T : U # T => g[U] = whole(U)
  BY ONLY <1>7
<1>9. ASSUME NEW U \in SUBSET T
      PROVE  g[U] = IF U = {} THEN <<>> ELSE g[U \ {Max(U)}] \o Entries(ls[Max(U)])
  <2>1. PICK x : x = Max(U)
    OBVIOUS
  <2>2. PICK V : V = U \ {x}
    OBVIOUS
  <2>3. U # {} => V # T /\ V \in SUBSET T /\ V \subseteq U
    BY ONLY <1>6, <1>9, <2>1, <2>2
  <2>4. U # {} => g[V] = whole(V)
    BY ONLY <1>8, <2>3
  <2>5. CASE U = T
    <3>1. g[U] = top
      BY ONLY <1>7, <1>9, <2>5
    <3> QED
      BY ONLY <2>1, <2>2, <2>4, <2>5, <3>1
  <2>6. CASE U # T
    <3>1. IsListing(ls, U, Listing(ls, U)) /\ U \in SUBSET U /\ IsFiniteSet(U) /\ U \subseteq Nat
      BY ONLY <1>3, <1>6, <1>9, <2>6
    <3>2. PICK h : h = Listing(ls, U)
      OBVIOUS
    <3>3. h[U] = IF U = {} THEN <<>> ELSE h[U \ {Max(U)}] \o Entries(ls[Max(U)])
      <4>1. ListedAt(ls, h, U)
        BY ONLY <3>1, <3>2, ListingAt
      <4> QED
        BY ONLY <4>1, Zenon DEF ListedAt
    <3>4. U # {} => h[V] = whole(V)
      <4> SUFFICES ASSUME U # {} PROVE h[V] = Listing(ls, V)[V]
        OBVIOUS
      <4>1. PICK w : w = Listing(ls, V)
        OBVIOUS
      <4>2. IsListing(ls, V, w) /\ IsListing(ls, U, h)
        BY ONLY <1>3, <2>3, <3>1, <3>2, <4>1, U # {}
      <4>3. Inside(V, U) /\ Inside(V, V) /\ Numbers(U)
        BY <2>3, <3>1 DEF Inside, Numbers
      <4>4. Agree(h, w, V)
        BY ONLY <4>2, <4>3, ListingUnique
      <4> QED
        BY ONLY <4>1, <4>4 DEF Agree
    <3>5. g[U] = h[U]
      BY ONLY <1>8, <1>9, <2>6, <3>2
    <3> QED
      BY ONLY <2>1, <2>2, <2>4, <3>3, <3>4, <3>5
  <2> QED
    BY <2>5, <2>6
<1>10. PICK h : h = [U \in SUBSET T |-> IF U = {} THEN <<>> ELSE g[U \ {Max(U)}] \o Entries(ls[Max(U)])]
  OBVIOUS
<1>11. \A U \in SUBSET T : g[U] = h[U]
  BY ONLY <1>9, <1>10
<1>12. g = h
  <2>1. g = [U \in SUBSET T |-> g[U]]
    BY ONLY <1>7
  <2>2. h = [U \in SUBSET T |-> h[U]]
    BY ONLY <1>10
  <2> QED
    BY ONLY <2>1, <2>2, <1>11
<1>13. IsListing(ls, T, g)
  BY ONLY <1>10, <1>12 DEF IsListing
<1> QED
  BY <1>4, <1>13

\* q lists the orders of the levels in s, all of them and nothing else.
Shows(ls, s, q) ==
    /\ q \in Seq([id: Nat, price: Nat, qty: Nat])
    /\ \A i \in 1 .. Len(q) : \E a \in s : \E b \in 1 .. Len(ls[a].queue) : q[i] = Entry(ls[a], b)
    /\ \A a \in s : \A b \in 1 .. Len(ls[a].queue) : \E i \in 1 .. Len(q) : q[i] = Entry(ls[a], b)

LEMMA ShowsMore ==
    ASSUME NEW ls \in Seq(Level), NEW s, s \subseteq 1 .. Len(ls), NEW x \in s, NEW q, Shows(ls, s \ {x}, q)
    PROVE  Shows(ls, s, q \o Entries(ls[x]))
<1>1. PICK M : M = [id: Nat, price: Nat, qty: Nat]
  OBVIOUS
<1>2. PICK l : l = ls[x]
  OBVIOUS
<1>3. l \in Level
  BY <1>2, ElementOfSeq
<1>4. PICK e : e = Entries(l)
  OBVIOUS
<1>5. PICK n : n = Len(l.queue)
  OBVIOUS
<1>6. /\ n \in Nat /\ DOMAIN l.queue = 1 .. n /\ l.price \in Nat
      /\ \A b \in 1 .. n : l.queue[b].id \in Nat /\ l.queue[b].rem \in Nat
  BY <1>3, <1>5, QueueType
<1>7. e = [i \in 1 .. n |-> Entry(l, i)]
  BY ONLY <1>4, <1>6, Zenon DEF Entries, Entry
<1>8. \A i \in 1 .. n : Entry(l, i) \in M
  BY ONLY <1>1, <1>6 DEF Entry
<1>9. e \in Seq(M) /\ Len(e) = n /\ \A i \in 1 .. n : e[i] = Entry(l, i)
  BY ONLY <1>6, <1>7, <1>8
<1>10. q \in Seq(M)
  BY <1>1 DEF Shows
<1>11. PICK r : r = q \o e
  OBVIOUS
<1>12. PICK k : k = Len(q)
  OBVIOUS
<1>13. /\ r \in Seq(M) /\ Len(r) = k + n /\ k \in Nat
       /\ \A i \in 1 .. k + n : r[i] = IF i <= k THEN q[i] ELSE e[i - k]
  BY ONLY <1>9, <1>10, <1>11, <1>12, ConcatProperties, LenProperties
<1>14. ASSUME NEW i \in 1 .. k + n
       PROVE  \E a \in s : \E b \in 1 .. Len(ls[a].queue) : r[i] = Entry(ls[a], b)
  <2>1. CASE i <= k
    <3>1. i \in 1 .. Len(q) /\ r[i] = q[i]
      BY ONLY <1>6, <1>12, <1>13, <1>14, <2>1
    <3>2. PICK a \in s \ {x} : \E b \in 1 .. Len(ls[a].queue) : q[i] = Entry(ls[a], b)
      BY <3>1 DEF Shows
    <3> QED
      BY <3>1, <3>2
  <2>2. CASE ~ (i <= k)
    <3>1. i - k \in 1 .. n /\ r[i] = e[i - k]
      BY ONLY <1>6, <1>13, <1>14, <2>2
    <3>2. r[i] = Entry(ls[x], i - k) /\ i - k \in 1 .. Len(ls[x].queue)
      BY ONLY <1>2, <1>5, <1>9, <3>1
    <3> QED
      BY <3>2
  <2> QED
    BY <2>1, <2>2
<1>15. ASSUME NEW a \in s, NEW b \in 1 .. Len(ls[a].queue)
       PROVE  \E i \in 1 .. k + n : r[i] = Entry(ls[a], b)
  <2>1. CASE a = x
    <3>1. b \in 1 .. n /\ e[b] = Entry(ls[a], b)
      BY ONLY <1>2, <1>5, <1>9, <1>15, <2>1
    <3>2. k + b \in 1 .. k + n /\ ~ (k + b <= k) /\ (k + b) - k = b
      BY ONLY <1>6, <1>13, <3>1
    <3>3. r[k + b] = e[b]
      BY ONLY <1>13, <3>2
    <3> QED
      BY ONLY <3>1, <3>2, <3>3
  <2>2. CASE a # x
    <3>1. PICK i \in 1 .. Len(q) : q[i] = Entry(ls[a], b)
      BY <2>2 DEF Shows
    <3>2. i \in 1 .. k + n /\ i <= k
      BY ONLY <1>6, <1>12, <1>13, <3>1
    <3>3. r[i] = q[i]
      BY ONLY <1>13, <3>2
    <3> QED
      BY ONLY <3>1, <3>2, <3>3
  <2> QED
    BY <2>1, <2>2
<1>16. Shows(ls, s, r)
  BY ONLY <1>1, <1>13, <1>14, <1>15 DEF Shows
<1> QED
  BY ONLY <1>2, <1>4, <1>11, <1>16

\* The levels of a listing from the last one down.
IsQueue(ls, D, g) == ls \in Seq(Level) /\ D = 1 .. Len(ls) /\ g = Listing(ls, D)
Unfolds(ls, D, g, V) ==
    /\ V = {} => g[V] = <<>>
    /\ V # {} => \E x \in V : /\ \A y \in V : y <= x
                              /\ V \ {x} \in SUBSET D
                              /\ g[V] = g[V \ {x}] \o Entries(ls[x])

LEMMA ListingStep ==
    ASSUME NEW ls, NEW D, NEW g, IsQueue(ls, D, g), NEW V, Inside(V, D)
    PROVE  Unfolds(ls, D, g, V)
<1> USE DEF IsQueue, Inside
<1>1. IsFiniteSet(D) /\ D \subseteq Nat
  BY LenProperties, FS_Interval
<1>2. IsListing(ls, D, g)
  BY <1>1, ListingExists
<1>3. IsFiniteSet(V) /\ V \subseteq Nat
  BY <1>1, FS_Subset
<1>4. g[V] = IF V = {} THEN <<>> ELSE g[V \ {Max(V)}] \o Entries(ls[Max(V)])
  <2>1. ListedAt(ls, g, V)
    BY ONLY <1>2, Inside(V, D), ListingAt DEF Inside
  <2> QED
    BY ONLY <2>1, Zenon DEF ListedAt
<1>5. ASSUME V # {}
      PROVE  \E x \in V : /\ \A y \in V : y <= x
                          /\ V \ {x} \in SUBSET D
                          /\ g[V] = g[V \ {x}] \o Entries(ls[x])
  <2>1. PICK x : x = Max(V)
    OBVIOUS
  <2>2. x \in V /\ \A y \in V : y <= x
    <3>1. V \subseteq Int
      BY <1>3
    <3>2. \E n \in V : \A k \in V : n >= k
      BY ONLY <1>3, <1>5, <3>1, GreatestNumber
    <3>3. x \in V /\ \A k \in V : x >= k
      BY ONLY <2>1, <3>2 DEF Max
    <3> QED
      BY <3>1, <3>3
  <2>3. g[V] = g[V \ {x}] \o Entries(ls[x])
    BY ONLY <1>4, <1>5, <2>1
  <2>4. V \ {x} \in SUBSET D
    BY ONLY Inside(V, D) DEF Inside
  <2> QED
    BY ONLY <2>2, <2>3, <2>4
<1> QED
  BY ONLY <1>4, <1>5 DEF Unfolds

LEMMA ListingShows ==
    ASSUME NEW ls, NEW D, NEW g, IsQueue(ls, D, g)
    PROVE  \A V \in SUBSET D : Shows(ls, V, g[V])
<1> DEFINE Bad == {V \in SUBSET D : ~Shows(ls, V, g[V])}
<1> SUFFICES ASSUME Bad # {} PROVE FALSE
  OBVIOUS
<1>1. IsFiniteSet(D) /\ Bad \subseteq SUBSET D
  BY LenProperties, FS_Interval DEF IsQueue
<1>2. PICK V \in Bad : \A x \in V : V \ {x} \notin Bad
  <2> HIDE DEF Bad
  <2> QED
    BY <1>1, SmallestSubset
<1>3. V \in SUBSET D /\ Inside(V, D) /\ ls \in Seq(Level) /\ D = 1 .. Len(ls)
  BY <1>2 DEF Inside, IsQueue
<1>4. Unfolds(ls, D, g, V)
  BY ONLY <1>3, IsQueue(ls, D, g), ListingStep
<1>5. CASE V = {}
  <2>1. g[V] = <<>>
    BY ONLY <1>4, <1>5 DEF Unfolds
  <2>2. Shows(ls, {}, <<>>)
    BY DEF Shows
  <2> QED
    BY <1>2, <1>5, <2>1, <2>2
<1>6. CASE V # {}
  <2>1. PICK x \in V : V \ {x} \in SUBSET D /\ g[V] = g[V \ {x}] \o Entries(ls[x])
    BY ONLY <1>4, <1>6 DEF Unfolds
  <2>2. Shows(ls, V \ {x}, g[V \ {x}])
    BY <1>2, <2>1
  <2>3. V \subseteq 1 .. Len(ls)
    BY <1>3
  <2>4. Shows(ls, V, g[V \ {x}] \o Entries(ls[x]))
    BY ONLY <1>3, <2>1, <2>2, <2>3, ShowsMore
  <2>5. Shows(ls, V, g[V])
    BY ONLY <2>1, <2>4
  <2> QED
    BY <1>2, <2>5
<1> QED
  BY <1>5, <1>6

LEMMA QueueShows ==
    ASSUME NEW side, book[side] \in Seq(Level)
    PROVE  Shows(book[side], 1 .. Len(book[side]), QueueOf(side))
<1>1. PICK ls : ls = book[side]
  OBVIOUS
<1>2. PICK D : D = 1 .. Len(ls)
  OBVIOUS
<1>3. ls \in Seq(Level) /\ DOMAIN ls = D /\ D \in SUBSET D
  BY <1>1, <1>2, LenProperties
<1>4. PICK g : g = Listing(ls, D)
  OBVIOUS
<1>5. IsQueue(ls, D, g)
  BY ONLY <1>2, <1>3, <1>4 DEF IsQueue
<1>6. Shows(ls, D, g[D])
  BY ONLY <1>3, <1>5, ListingShows
<1>7. QueueOf(side) = g[D]
  BY ONLY <1>1, <1>3, <1>4, QueueIsListing
<1> QED
  BY ONLY <1>1, <1>2, <1>6, <1>7

-----------------------------------------------------------------------------
(* Price-time priority.                                                    *)

Prior(queue, t, m) ==
    /\ t.price = m.price /\ Crosses(taker.side, taker.price, t.price)
    /\ \A i \in DOMAIN queue :
          /\ ~Better(Opp, queue[i].price, t.price)
          /\ queue[i].price = t.price => queue[i].id >= t.maker

Priority ==
    Len(trades') > Len(trades) =>
        LET t == trades'[Len(trades')]
            queue == QueueOf(Opp)
            maker == queue[SelectInSeq(queue, LAMBDA m : m.id = t.maker)]
        IN  ~overflow =>
            /\ t.price = maker.price /\ Crosses(taker.side, taker.price, t.price)
            /\ \A i \in DOMAIN queue :
                  /\ ~Better(Opp, queue[i].price, t.price)
                  /\ queue[i].price = t.price => queue[i].id >= t.maker

\* No order of a sound side comes before the first order of its first level, and
\* no other order has its number.
LEMMA FirstIsBest ==
    ASSUME NEW side \in Sides, NEW quants, NEW ls \in Seq(Level), SoundSide(side, ls, quants),
           1 \in 1 .. Len(ls), NEW a \in 1 .. Len(ls), NEW b \in 1 .. Len(ls[a].queue)
    PROVE  /\ ~Better(side, ls[a].price, ls[1].price)
           /\ ls[a].price = ls[1].price => ls[a].queue[b].id >= ls[1].queue[1].id
           /\ ls[a].queue[b].id = ls[1].queue[1].id => ls[a].price = ls[1].price
<1>1. Len(ls) \in Nat /\ ls[a] \in Level /\ ls[1] \in Level
  BY LenProperties, ElementOfSeq
<1>2. /\ ls[a].price \in Nat /\ ls[1].price \in Nat
      /\ Len(ls[a].queue) \in Nat /\ \A k \in 1 .. Len(ls[a].queue) : ls[a].queue[k].id \in Nat
  BY <1>1, QueueType
<1>3. CASE a = 1
  <2>1. Fifo(ls[a].queue)
    BY DEF SoundSide, Sound
  <2>2. 1 \in 1 .. Len(ls[a].queue) /\ (b = 1 \/ 1 < b)
    BY <1>2
  <2>3. b = 1 \/ ls[a].queue[1].id < ls[a].queue[b].id
    BY <2>1, <2>2 DEF Fifo
  <2>4. ~Better(side, ls[a].price, ls[1].price)
    BY <1>2, <1>3 DEF Better
  <2> QED
    BY <1>2, <1>3, <2>2, <2>3, <2>4
<1>4. CASE a # 1
  <2>1. 1 < a
    BY <1>1, <1>4
  <2>2. Better(side, ls[1].price, ls[a].price)
    BY <2>1, SortedIs DEF SoundSide
  <2>3. ~Better(side, ls[a].price, ls[1].price) /\ ls[a].price # ls[1].price
    BY <1>2, <2>2 DEF Better
  <2>4. Apart(ls[a].queue, ls[1].queue) /\ ls[1].queue # <<>>
    BY <1>4 DEF SoundSide
  <2>5. 1 \in 1 .. Len(ls[1].queue)
    <3>1. ls[1].queue \in Seq(Node)
      BY <1>1, QueueType
    <3> QED
      BY <2>4, <3>1
  <2>6. ls[a].queue[b].id # ls[1].queue[1].id
    BY <2>4, <2>5 DEF Apart, Away
  <2> QED
    BY <2>3, <2>6
<1> QED
  BY <1>3, <1>4

LEMMA FillPriority == ASSUME EngineInv, FillMaker PROVE Priority
<1>1. PICK ls : ls = book[Opp]
  OBVIOUS
<1>2. PICK l : l = BestLevel
  OBVIOUS
<1>3. PICK m : m = BestMaker
  OBVIOUS
<1>4. PICK t : t = [maker |-> m.id, price |-> l.price, qty |-> Given]
  OBVIOUS
<1>5. PICK side : side = Opp
  OBVIOUS
<1>6. phase = "walking" /\ WantsBest
  BY DEF FillMaker
<1>7. trades' = Append(trades, t)
  <2>1. trades' = Append(trades, [maker |-> BestMaker.id, price |-> BestLevel.price, qty |-> Given])
    BY ONLY FillMaker, Zenon DEF FillMaker, Given, BestMaker, BestLevel
  <2> QED
    BY ONLY <1>2, <1>3, <1>4, <2>1
<1>8. /\ SoundBook /\ side \in Sides /\ ls \in Seq(Level) /\ ls = book[side]
      /\ 1 \in 1 .. Len(ls) /\ l = ls[1] /\ 1 \in 1 .. Len(ls[1].queue) /\ m = ls[1].queue[1]
  <2>1. /\ SoundBook /\ Opp \in Sides /\ book[Opp] \in Seq(Level)
        /\ 1 \in 1 .. Len(book[Opp]) /\ 1 \in 1 .. Len(BestLevel.queue) /\ BestMaker = BestLevel.queue[1]
    BY <1>6, AtHand
  <2> QED
    BY ONLY <1>1, <1>2, <1>3, <1>5, <2>1 DEF BestLevel
<1>9. t.maker = ls[1].queue[1].id /\ t.price = ls[1].price
  BY ONLY <1>4, <1>8
<1>10. SoundSide(side, ls, owed)
  BY <1>8 DEF SoundBook
<1>11. PICK queue : queue = QueueOf(Opp)
  OBVIOUS
<1>12. Shows(ls, 1 .. Len(ls), queue)
  <2>1. Shows(book[side], 1 .. Len(book[side]), QueueOf(side))
    BY <1>8, QueueShows
  <2> QED
    BY ONLY <1>5, <1>8, <1>11, <2>1
<1>13. DOMAIN queue = 1 .. Len(queue) /\ Len(queue) \in Nat
  <2>1. queue \in Seq([id: Nat, price: Nat, qty: Nat])
    BY ONLY <1>12 DEF Shows
  <2> QED
    BY <2>1, LenProperties
<1>14. ASSUME NEW i \in 1 .. Len(queue)
       PROVE  /\ ~Better(side, queue[i].price, t.price)
              /\ queue[i].price = t.price => queue[i].id >= t.maker
              /\ queue[i].id = t.maker => queue[i].price = t.price
  <2>1. PICK a \in 1 .. Len(ls) : \E y \in 1 .. Len(ls[a].queue) : queue[i] = Entry(ls[a], y)
    BY ONLY <1>12, <1>14 DEF Shows
  <2>2. PICK b \in 1 .. Len(ls[a].queue) : queue[i] = Entry(ls[a], b)
    BY ONLY <2>1
  <2>3. queue[i].id = ls[a].queue[b].id /\ queue[i].price = ls[a].price
    BY ONLY <2>2 DEF Entry
  <2>4. /\ ~Better(side, ls[a].price, ls[1].price)
        /\ ls[a].price = ls[1].price => ls[a].queue[b].id >= ls[1].queue[1].id
        /\ ls[a].queue[b].id = ls[1].queue[1].id => ls[a].price = ls[1].price
    BY ONLY <1>8, <1>10, <2>1, <2>2, FirstIsBest
  <2> QED
    BY ONLY <1>9, <2>3, <2>4
<1>15. PICK k : k = SelectInSeq(queue, LAMBDA x : x.id = t.maker)
  OBVIOUS
<1>16. k \in 1 .. Len(queue) /\ queue[k].id = t.maker
  <2>1. PICK hits : hits = {n \in 1 .. Len(queue) : queue[n].id = t.maker}
    OBVIOUS
  <2>2. k = IF hits # {} THEN Min(hits) ELSE 0
    BY ONLY <1>15, <2>1 DEF SelectInSeq
  <2>3. hits # {}
    <3>1. \A a \in 1 .. Len(ls) : \A b \in 1 .. Len(ls[a].queue) : \E i \in 1 .. Len(queue) : queue[i] = Entry(ls[a], b)
      BY ONLY <1>12 DEF Shows
    <3>2. PICK i \in 1 .. Len(queue) : queue[i] = Entry(ls[1], 1)
      BY ONLY <1>8, <3>1
    <3>3. queue[i].id = t.maker
      BY ONLY <1>9, <3>2 DEF Entry
    <3> QED
      BY ONLY <2>1, <3>2, <3>3
  <2>4. hits \subseteq Nat
    BY <2>1, <1>13
  <2>5. PICK x \in hits : \A y \in hits : ~ (y < x)
    BY <2>3, <2>4, LeastNumber
  <2>6. \A y \in hits : x <= y
    BY <2>4, <2>5
  <2>7. \E z \in hits : \A y \in hits : z <= y
    BY <2>6
  <2>8. Min(hits) \in hits
    BY ONLY <2>7 DEF Min
  <2> QED
    BY ONLY <2>1, <2>2, <2>3, <2>8
<1>17. queue[k].price = t.price
  BY ONLY <1>14, <1>16
<1>18. Crosses(taker.side, taker.price, t.price)
  BY ONLY <1>1, <1>6, <1>9 DEF WantsBest
<1>19. Prior(queue, t, queue[k])
  BY ONLY <1>5, <1>13, <1>14, <1>17, <1>18 DEF Prior
<1>20. trades'[Len(trades')] = t
  <2>1. trades \in Seq(Trade)
    BY DEF EngineInv, CallTypes
  <2>2. Len(trades') = Len(trades) + 1 /\ trades'[Len(trades) + 1] = t
    BY ONLY <1>7, <2>1, AppendProperties
  <2> QED
    BY ONLY <2>2
<1>21. Prior(QueueOf(Opp), trades'[Len(trades')],
             QueueOf(Opp)[SelectInSeq(QueueOf(Opp), LAMBDA x : x.id = trades'[Len(trades')].maker)])
  BY ONLY <1>11, <1>15, <1>19, <1>20
<1> QED
  BY ONLY <1>21, Zenon DEF Prior, Priority

LEMMA StepPriority == EngineInv /\ [Next]_vars => Priority
<1> SUFFICES ASSUME EngineInv, [Next]_vars PROVE Priority
  OBVIOUS
<1>1. CASE FillMaker
  BY <1>1, FillPriority
<1>2. ASSUME trades' = trades \/ trades' = <<>>
      PROVE  Priority
  <2>1. trades \in Seq(Trade)
    BY DEF EngineInv, CallTypes
  <2>2. Len(trades) \in Nat
    BY <2>1, LenProperties
  <2>3. ~ (Len(trades') > Len(trades))
    BY ONLY <1>2, <2>2
  <2> QED
    BY ONLY <2>3, Zenon DEF Priority
<1>3. ~FillMaker => trades' = trades \/ trades' = <<>>
  <2>1. reset => trades' = <<>>
    BY DEF reset, ForgetResult
  <2>2. \A side, price, qty, ice, vis : add_passive_order(side, price, qty, ice, vis) => trades' = <<>>
    BY DEF add_passive_order, ForgetResult
  <2>3. \A id, side, price : cancel_order(id, side, price) => trades' = <<>>
    BY DEF cancel_order, ForgetResult
  <2>4. \A o : match_active_order(o) => trades' = <<>>
    BY DEF match_active_order
  <2>5. TradesOverflow => trades' = trades
    BY DEF TradesOverflow
  <2>6. FinishMatch => trades' = trades
    BY DEF FinishMatch, ReportOutcome
  <2>7. UNCHANGED vars => trades' = trades
    BY DEF vars
  <2> QED
    BY <2>1, <2>2, <2>3, <2>4, <2>5, <2>6, <2>7 DEF Next
<1> QED
  BY <1>1, <1>2, <1>3

\* Price-time priority: whatever the book and however it was built, a trade of the
\* matching loop is with an order that no resting order beats, neither on price nor,
\* at its price, on age, at that order's own price, which the taker accepts.
THEOREM PriorityHolds == Spec => PriceTimePriority
<1>1. PriceTimePriority <=> [][Priority]_vars
  BY DEF PriceTimePriority, Priority
<1> QED
  BY <1>1, EngineInvariant, StepPriority, PTL DEF Spec

-----------------------------------------------------------------------------
(* The loop computes the closed form.                                      *)

Maker == [id: Nat, price: Nat, qty: Nat]

Ahead(side, x, y) == Better(side, x.price, y.price) \/ (x.price = y.price /\ x.id < y.id)
InPriority(side, q) == \A i, j \in 1 .. Len(q) : i < j => q[i].id # q[j].id /\ Ahead(side, q[i], q[j])

\* r is q with the orders of level l behind it.
Extends(q, l, r) ==
    /\ q \in Seq(Maker) /\ Len(q) \in Nat /\ Len(l.queue) \in Nat
    /\ r \in Seq(Maker) /\ Len(r) = Len(q) + Len(l.queue)
    /\ \A i \in 1 .. Len(q) : r[i] = q[i]
    /\ \A i \in 1 .. Len(l.queue) : r[Len(q) + i] = Entry(l, i)

LEMMA ConcatIs ==
    ASSUME NEW ls \in Seq(Level), NEW s, NEW x \in 1 .. Len(ls), NEW q, Shows(ls, s, q),
           NEW r, r = q \o Entries(ls[x])
    PROVE  Extends(q, ls[x], r)
<1>1. PICK l : l = ls[x]
  OBVIOUS
<1>2. l \in Level
  BY <1>1, ElementOfSeq
<1>3. PICK e : e = Entries(l)
  OBVIOUS
<1>4. PICK n : n = Len(l.queue)
  OBVIOUS
<1>5. /\ n \in Nat /\ DOMAIN l.queue = 1 .. n /\ l.price \in Nat
      /\ \A b \in 1 .. n : l.queue[b].id \in Nat /\ l.queue[b].rem \in Nat
  BY <1>2, <1>4, QueueType
<1>6. e = [i \in 1 .. n |-> Entry(l, i)]
  BY ONLY <1>3, <1>5, Zenon DEF Entries, Entry
<1>7. \A i \in 1 .. n : Entry(l, i) \in Maker
  BY ONLY <1>5 DEF Entry, Maker
<1>8. e \in Seq(Maker) /\ Len(e) = n /\ \A i \in 1 .. n : e[i] = Entry(l, i)
  BY ONLY <1>5, <1>6, <1>7
<1>9. q \in Seq(Maker)
  BY DEF Shows, Maker
<1>10. PICK k : k = Len(q)
  OBVIOUS
<1>11. /\ r \in Seq(Maker) /\ Len(r) = k + n /\ k \in Nat
       /\ \A i \in 1 .. k + n : r[i] = IF i <= k THEN q[i] ELSE e[i - k]
  <2>1. r = q \o e
    BY <1>1, <1>3
  <2> QED
    BY ONLY <1>8, <1>9, <1>10, <2>1, ConcatProperties, LenProperties
<1>12. ASSUME NEW i \in 1 .. k PROVE r[i] = q[i]
  <2>1. i \in 1 .. k + n /\ i <= k
    BY ONLY <1>5, <1>11, <1>12
  <2> QED
    BY ONLY <1>11, <2>1
<1>13. ASSUME NEW i \in 1 .. n PROVE r[k + i] = Entry(l, i)
  <2>1. k + i \in 1 .. k + n /\ ~ (k + i <= k) /\ (k + i) - k = i
    BY ONLY <1>5, <1>11, <1>13
  <2>2. r[k + i] = e[i]
    BY ONLY <1>11, <2>1
  <2> QED
    BY ONLY <1>8, <1>13, <2>2
<1> QED
  BY ONLY <1>1, <1>4, <1>5, <1>9, <1>10, <1>11, <1>12, <1>13 DEF Extends

LEMMA OrderedMore ==
    ASSUME NEW side \in Sides, NEW quants, NEW ls \in Seq(Level), SoundSide(side, ls, quants),
           NEW s, s \subseteq 1 .. Len(ls), NEW x \in s, \A y \in s : y <= x,
           NEW q, Shows(ls, s \ {x}, q), InPriority(side, q), NEW r, r = q \o Entries(ls[x])
    PROVE  InPriority(side, r)
<1>1. PICK k : k = Len(q)
  OBVIOUS
<1>2. PICK u : u = ls[x].queue
  OBVIOUS
<1>3. x \in 1 .. Len(ls) /\ Len(ls) \in Nat
  BY LenProperties
<1>4. /\ k \in Nat /\ Len(u) \in Nat /\ Len(r) = k + Len(u)
      /\ \A i \in 1 .. k : r[i] = q[i]
      /\ \A i \in 1 .. Len(u) : r[k + i] = Entry(ls[x], i)
  <2>1. Extends(q, ls[x], r)
    BY ONLY <1>3, ls \in Seq(Level), Shows(ls, s \ {x}, q), r = q \o Entries(ls[x]), ConcatIs
  <2> QED
    BY ONLY <1>1, <1>2, <2>1 DEF Extends
<1>5. \A i \in 1 .. Len(u) : Entry(ls[x], i).id = u[i].id /\ Entry(ls[x], i).price = ls[x].price
  BY ONLY <1>2 DEF Entry
<1> SUFFICES ASSUME NEW i \in 1 .. Len(r), NEW j \in 1 .. Len(r), i < j
             PROVE  r[i].id # r[j].id /\ Ahead(side, r[i], r[j])
  BY DEF InPriority
<1>6. CASE j <= k
  <2>1. i \in 1 .. k /\ j \in 1 .. k
    BY <1>4, <1>6
  <2>2. q[i].id # q[j].id /\ Ahead(side, q[i], q[j])
    BY <1>1, <2>1 DEF InPriority
  <2> QED
    BY <1>4, <2>1, <2>2
<1>7. CASE k < i
  <2>1. i - k \in 1 .. Len(u) /\ j - k \in 1 .. Len(u) /\ i - k < j - k /\ k + (i - k) = i /\ k + (j - k) = j
    BY <1>4, <1>7
  <2>2. PICK a, b : a = i - k /\ b = j - k
    OBVIOUS
  <2>3. r[i] = Entry(ls[x], a) /\ r[j] = Entry(ls[x], b) /\ a \in 1 .. Len(u) /\ b \in 1 .. Len(u) /\ a < b
    BY ONLY <1>4, <2>1, <2>2
  <2>4. Fifo(u)
    BY <1>2, <1>3 DEF SoundSide, Sound
  <2>5. u[a].id < u[b].id
    BY ONLY <2>3, <2>4 DEF Fifo
  <2>6. r[i].id = u[a].id /\ r[j].id = u[b].id /\ r[i].price = r[j].price
    BY ONLY <1>5, <2>3
  <2>7. u[a].id \in Nat /\ u[b].id \in Nat
    <3>1. ls[x] \in Level
      BY <1>3, ElementOfSeq
    <3> QED
      BY <1>2, <2>3, <3>1, QueueType
  <2>8. u[a].id # u[b].id
    BY ONLY <2>5, <2>7
  <2> QED
    BY ONLY <2>5, <2>6, <2>8 DEF Ahead
<1>8. CASE i <= k /\ k < j
  <2>1. i \in 1 .. k /\ j - k \in 1 .. Len(u) /\ k + (j - k) = j
    BY <1>4, <1>8
  <2>2. PICK b : b = j - k
    OBVIOUS
  <2>3. r[i] = q[i] /\ r[j] = Entry(ls[x], b) /\ b \in 1 .. Len(u)
    BY ONLY <1>4, <2>1, <2>2
  <2>4. PICK c \in s \ {x} : \E y \in 1 .. Len(ls[c].queue) : q[i] = Entry(ls[c], y)
    BY <1>1, <2>1 DEF Shows
  <2>5. PICK d \in 1 .. Len(ls[c].queue) : q[i] = Entry(ls[c], d)
    BY ONLY <2>4
  <2>6. c \in 1 .. Len(ls) /\ c < x /\ c # x
    BY <1>3, <2>4
  <2>7. Better(side, ls[c].price, ls[x].price)
    BY <1>3, <2>6, SortedIs DEF SoundSide
  <2>8. Apart(ls[c].queue, u)
    BY <1>2, <1>3, <2>6 DEF SoundSide
  <2>9. ls[c].queue[d].id # u[b].id
    BY ONLY <2>3, <2>5, <2>8 DEF Apart, Away
  <2>10. r[i].id = ls[c].queue[d].id /\ r[i].price = ls[c].price
    BY ONLY <2>3, <2>5 DEF Entry
  <2>11. r[j].id = u[b].id /\ r[j].price = ls[x].price
    BY ONLY <1>5, <2>3
  <2> QED
    BY ONLY <2>7, <2>9, <2>10, <2>11 DEF Ahead
<1> QED
  BY <1>4, <1>6, <1>7, <1>8

LEMMA QueueInPriority ==
    ASSUME NEW side \in Sides, NEW quants, book[side] \in Seq(Level), SoundSide(side, book[side], quants)
    PROVE  InPriority(side, QueueOf(side))
<1>1. PICK ls : ls = book[side]
  OBVIOUS
<1>2. PICK D : D = 1 .. Len(ls)
  OBVIOUS
<1>3. ls \in Seq(Level) /\ DOMAIN ls = D /\ D \in SUBSET D /\ IsFiniteSet(D) /\ SoundSide(side, ls, quants)
  BY <1>1, <1>2, LenProperties, FS_Interval
<1>4. PICK g : g = Listing(ls, D)
  OBVIOUS
<1>5. IsQueue(ls, D, g)
  BY ONLY <1>2, <1>3, <1>4 DEF IsQueue
<1>6. \A V \in SUBSET D : Shows(ls, V, g[V])
  BY ONLY <1>5, ListingShows
<1> DEFINE Bad == {V \in SUBSET D : ~InPriority(side, g[V])}
<1>7. Bad = {}
  <2> SUFFICES ASSUME Bad # {} PROVE FALSE
    OBVIOUS
  <2>1. Bad \subseteq SUBSET D
    OBVIOUS
  <2>2. PICK V \in Bad : \A x \in V : V \ {x} \notin Bad
    <3> HIDE DEF Bad
    <3> QED
      BY ONLY <1>3, <2>1, Bad # {}, SmallestSubset
  <2>3. V \in SUBSET D /\ ~InPriority(side, g[V]) /\ Inside(V, D) /\ V \subseteq 1 .. Len(ls)
    BY <1>2, <2>2 DEF Inside
  <2>4. Unfolds(ls, D, g, V)
    BY ONLY <1>5, <2>3, ListingStep
  <2>5. CASE V = {}
    <3>1. g[V] = <<>>
      BY ONLY <2>4, <2>5 DEF Unfolds
    <3>2. InPriority(side, <<>>)
      BY DEF InPriority
    <3> QED
      BY ONLY <2>3, <3>1, <3>2
  <2>6. CASE V # {}
    <3>1. PICK x \in V : /\ \A y \in V : y <= x
                         /\ V \ {x} \in SUBSET D
                         /\ g[V] = g[V \ {x}] \o Entries(ls[x])
      BY ONLY <2>4, <2>6 DEF Unfolds
    <3>2. PICK q : q = g[V \ {x}]
      OBVIOUS
    <3>3. Shows(ls, V \ {x}, q)
      BY ONLY <1>6, <3>1, <3>2
    <3>4. InPriority(side, q)
      BY <2>2, <3>1, <3>2
    <3>5. PICK r : r = q \o Entries(ls[x])
      OBVIOUS
    <3>6. InPriority(side, r)
      BY ONLY side \in Sides, <1>3, <2>3, <3>1, <3>3, <3>4, <3>5, OrderedMore
    <3> QED
      BY ONLY <2>3, <3>1, <3>2, <3>5, <3>6
  <2> QED
    BY <2>5, <2>6
<1>8. InPriority(side, g[D])
  BY <1>3, <1>7
<1>9. QueueOf(side) = g[D]
  BY ONLY <1>1, <1>3, <1>4, QueueIsListing
<1> QED
  BY ONLY <1>8, <1>9

\* What is offered at acceptable prices, counted order by order and level by level.
Offers(q) == [i \in 1 .. Len(q) |-> q[i].qty]
Crossing(q, side, limit) == {i \in 1 .. Len(q) : Crosses(side, limit, q[i].price)}
Volumes(ls) == [a \in 1 .. Len(ls) |-> ls[a].volume]
CrossingLevels(ls, V, side, limit) == {a \in V : Crosses(side, limit, ls[a].price)}
Measured(ls, V, q, side, limit) ==
    SumFunctionOnSet(Offers(q), Crossing(q, side, limit)) =
        SumFunctionOnSet(Volumes(ls), CrossingLevels(ls, V, side, limit))

LEMMA OffersAre ==
    ASSUME NEW q \in Seq(Maker), NEW side, NEW limit
    PROVE  /\ Len(q) \in Nat /\ IsFiniteSet(1 .. Len(q)) /\ IsFiniteSet(Crossing(q, side, limit))
           /\ \A i \in 1 .. Len(q) : Offers(q)[i] = q[i].qty /\ Offers(q)[i] \in Nat /\ Offers(q)[i] \in Int
<1>1. Len(q) \in Nat
  BY LenProperties
<1>2. IsFiniteSet(1 .. Len(q))
  BY <1>1, FS_Interval
<1>3. IsFiniteSet(Crossing(q, side, limit))
  <2>1. Crossing(q, side, limit) \subseteq 1 .. Len(q)
    BY DEF Crossing
  <2> QED
    BY ONLY <1>2, <2>1, FS_Subset
<1>4. \A i \in 1 .. Len(q) : q[i] \in Maker
  BY ElementOfSeq
<1>5. \A i \in 1 .. Len(q) : q[i].qty \in Nat
  BY ONLY <1>4 DEF Maker
<1> QED
  BY <1>1, <1>2, <1>3, <1>5 DEF Offers

\* What a level adds.
LEMMA LevelOffers ==
    ASSUME NEW l \in Level, Counted(l), NEW q, NEW r, Extends(q, l, r)
    PROVE  SumFunctionOnSet(Offers(r), {Len(q) + i : i \in 1 .. Len(l.queue)}) = l.volume
<1>1. PICK n : n = Len(l.queue)
  OBVIOUS
<1>2. PICK k : k = Len(q)
  OBVIOUS
<1>3. /\ r \in Seq(Maker) /\ Len(r) = k + n /\ k \in Nat /\ n \in Nat
      /\ \A i \in 1 .. n : r[k + i] = Entry(l, i)
  BY ONLY <1>1, <1>2, Extends(q, l, r) DEF Extends
<1>4. PICK D : D = 1 .. n
  OBVIOUS
<1>5. PICK h : h = [i \in 1 .. Len(l.queue) |-> l.queue[i].rem]
  OBVIOUS
<1>6. l.queue \in Seq(Node)
  BY QueueType
<1>7. /\ Total(l.queue) = SumFunctionOnSet(h, D) /\ IsFiniteSet(D)
      /\ \A i \in D : h[i] = l.queue[i].rem /\ h[i] \in Nat
  BY ONLY <1>1, <1>4, <1>5, <1>6, TotalIs
<1>8. PICK g : g = [i \in D |-> k + i]
  OBVIOUS
<1>9. \A i \in D : g[i] = k + i
  BY ONLY <1>8
<1>10. \A i, j \in D : g[i] = g[j] => i = j
  BY ONLY <1>3, <1>4, <1>9
<1>11. PICK f : f = Offers(r)
  OBVIOUS
<1>12. \A i \in D : f[g[i]] \in Int /\ h[i] = f[g[i]]
  <2> SUFFICES ASSUME NEW i \in D PROVE f[g[i]] \in Int /\ h[i] = f[g[i]]
    OBVIOUS
  <2>1. k + i \in 1 .. Len(r) /\ i \in 1 .. n
    BY ONLY <1>3, <1>4, i \in D
  <2>2. f[k + i] = r[k + i].qty /\ f[k + i] \in Int
    BY ONLY <1>3, <1>11, <2>1, OffersAre
  <2>3. r[k + i].qty = l.queue[i].rem
    <3>1. r[k + i] = Entry(l, i)
      BY ONLY <1>3, <2>1
    <3> QED
      BY ONLY <3>1 DEF Entry
  <2> QED
    BY ONLY <1>7, <1>9, <2>2, <2>3, i \in D
<1>13. SumFunctionOnSet(h, D) = SumFunctionOnSet(f, {g[i] : i \in D})
  BY ONLY <1>7, <1>10, <1>12, SumRenamed
<1>14. {g[i] : i \in D} = {k + i : i \in 1 .. n}
  BY ONLY <1>4, <1>9
<1>15. l.volume = Total(l.queue)
  BY DEF Counted
<1> QED
  BY ONLY <1>1, <1>2, <1>7, <1>11, <1>13, <1>14, <1>15

LEMMA VolumeMore ==
    ASSUME NEW ls \in Seq(Level), NEW s, s \subseteq 1 .. Len(ls), NEW x \in s, Counted(ls[x]),
           NEW q, NEW r, Extends(q, ls[x], r), NEW side, NEW limit, Measured(ls, s \ {x}, q, side, limit)
    PROVE  Measured(ls, s, r, side, limit)
<1>1. PICK l : l = ls[x]
  OBVIOUS
<1>2. PICK n : n = Len(l.queue)
  OBVIOUS
<1>3. PICK k : k = Len(q)
  OBVIOUS
<1>4. /\ q \in Seq(Maker) /\ r \in Seq(Maker) /\ Len(r) = k + n /\ k \in Nat /\ n \in Nat
      /\ \A i \in 1 .. k : r[i] = q[i]
      /\ \A i \in 1 .. n : r[k + i] = Entry(l, i)
  BY ONLY <1>1, <1>2, <1>3, Extends(q, ls[x], r) DEF Extends
<1>5. PICK f : f = Offers(q)
  OBVIOUS
<1>6. PICK h : h = Offers(r)
  OBVIOUS
<1>7. PICK C : C = Crossing(q, side, limit)
  OBVIOUS
<1>8. PICK E : E = Crossing(r, side, limit)
  OBVIOUS
<1>9. /\ IsFiniteSet(C) /\ IsFiniteSet(E)
      /\ \A i \in 1 .. k : f[i] = q[i].qty /\ f[i] \in Int
      /\ \A i \in 1 .. k + n : h[i] = r[i].qty /\ h[i] \in Int
  <2>1. IsFiniteSet(C) /\ \A i \in 1 .. k : f[i] = q[i].qty /\ f[i] \in Int
    BY ONLY <1>3, <1>4, <1>5, <1>7, OffersAre
  <2>2. IsFiniteSet(E) /\ \A i \in 1 .. k + n : h[i] = r[i].qty /\ h[i] \in Int
    BY ONLY <1>4, <1>6, <1>8, OffersAre
  <2> QED
    BY ONLY <2>1, <2>2
<1>10. C \subseteq 1 .. k /\ E \subseteq 1 .. k + n /\ \A i \in 1 .. k : i \in 1 .. k + n
  BY ONLY <1>3, <1>4, <1>7, <1>8 DEF Crossing
<1>11. \A i \in 1 .. k : i \in C <=> i \in E
  BY ONLY <1>3, <1>4, <1>7, <1>8, <1>10 DEF Crossing
<1>12. \A i \in 1 .. n : k + i \in E <=> Crosses(side, limit, l.price)
  <2> SUFFICES ASSUME NEW i \in 1 .. n PROVE k + i \in E <=> Crosses(side, limit, l.price)
    OBVIOUS
  <2>1. k + i \in 1 .. Len(r)
    BY ONLY <1>4, i \in 1 .. n
  <2>2. r[k + i].price = l.price
    <3>1. r[k + i] = Entry(l, i)
      BY ONLY <1>4, i \in 1 .. n
    <3> QED
      BY ONLY <3>1 DEF Entry
  <2> QED
    BY ONLY <1>8, <2>1, <2>2 DEF Crossing
<1>13. SumFunctionOnSet(f, C) = SumFunctionOnSet(h, C)
  <2>1. \A i \in C : f[i] = h[i]
    BY ONLY <1>4, <1>9, <1>10
  <2> QED
    BY ONLY <1>9, <2>1, SumSame
<1>14. PICK v : v = Volumes(ls)
  OBVIOUS
<1>15. PICK K : K = CrossingLevels(ls, s \ {x}, side, limit)
  OBVIOUS
<1>16. PICK M : M = CrossingLevels(ls, s, side, limit)
  OBVIOUS
<1>17. SumFunctionOnSet(f, C) = SumFunctionOnSet(v, K)
  BY ONLY <1>5, <1>7, <1>14, <1>15, Measured(ls, s \ {x}, q, side, limit) DEF Measured
<1>18. l \in Level /\ \A a \in 1 .. Len(ls) : v[a] = ls[a].volume /\ v[a] \in Int
  <2>1. \A a \in 1 .. Len(ls) : ls[a] \in Level
    BY ElementOfSeq
  <2>2. \A a \in 1 .. Len(ls) : ls[a].volume \in Int
    BY ONLY <2>1 DEF Level
  <2>3. l \in Level
    BY <1>1, <2>1
  <2> QED
    BY ONLY <1>14, <2>2, <2>3 DEF Volumes
<1>19. IsFiniteSet(M) /\ M \subseteq 1 .. Len(ls)
  <2>1. M \subseteq 1 .. Len(ls)
    BY <1>16 DEF CrossingLevels
  <2>2. IsFiniteSet(1 .. Len(ls))
    BY LenProperties, FS_Interval
  <2> QED
    BY ONLY <2>1, <2>2, FS_Subset
<1>20. CASE Crosses(side, limit, l.price)
  <2>1. PICK A : A = {k + i : i \in 1 .. n}
    OBVIOUS
  <2>2. C \subseteq E /\ E \ C = A
    <3>1. \A i \in 1 .. n : ~ (k + i \in 1 .. k)
      BY ONLY <1>4
    <3>2. A \subseteq E \ C
      BY ONLY <1>10, <1>12, <1>20, <2>1, <3>1
    <3>3. ASSUME NEW e \in E \ C PROVE e \in A
      <4>1. e \in 1 .. k + n /\ ~ (e \in 1 .. k)
        BY ONLY <1>10, <1>11, <3>3
      <4>2. e - k \in 1 .. n /\ k + (e - k) = e
        BY ONLY <1>4, <4>1
      <4> QED
        BY ONLY <2>1, <4>2
    <3> QED
      BY ONLY <1>10, <1>11, <3>2, <3>3
  <2>3. SumFunctionOnSet(h, E) = SumFunctionOnSet(h, C) + SumFunctionOnSet(h, A)
    <3>1. \A i \in E : h[i] \in Int
      BY ONLY <1>9, <1>10
    <3>2. SumFunctionOnSet(h, E) = SumFunctionOnSet(h, C) + SumFunctionOnSet(h, E \ C)
      BY ONLY <1>9, <2>2, <3>1, SumSplit
    <3> QED
      BY ONLY <2>2, <3>2
  <2>4. SumFunctionOnSet(h, A) = l.volume
    <3>1. l \in Level /\ Counted(l) /\ Extends(q, l, r)
      BY <1>1, <1>18
    <3>2. SumFunctionOnSet(Offers(r), {Len(q) + i : i \in 1 .. Len(l.queue)}) = l.volume
      BY ONLY <3>1, LevelOffers
    <3> QED
      BY ONLY <1>2, <1>3, <1>6, <2>1, <3>2
  <2>5. x \in M /\ M \ {x} = K
    BY ONLY <1>1, <1>15, <1>16, <1>20, x \in s DEF CrossingLevels
  <2>6. SumFunctionOnSet(v, M) = v[x] + SumFunctionOnSet(v, M \ {x})
    <3>1. \A a \in M : v[a] \in Int
      BY ONLY <1>18, <1>19
    <3>2. PICK y : y = x
      OBVIOUS
    <3>3. y \in M /\ IsFiniteSet(M)
      BY ONLY <1>19, <2>5, <3>2
    <3>4. SumFunctionOnSet(v, M) = v[y] + SumFunctionOnSet(v, M \ {y})
      BY ONLY <3>1, <3>3, SumRemove
    <3> QED
      BY ONLY <3>2, <3>4
  <2>7. v[x] = l.volume /\ l.volume \in Int
    BY <1>1, <1>18
  <2>8. SumFunctionOnSet(v, K) \in Int
    <3>1. IsFiniteSet(K) /\ \A a \in K : v[a] \in Int
      BY ONLY <1>18, <1>19, <2>5, FS_Subset
    <3> QED
      BY ONLY <3>1, SumInt
  <2>9. PICK w : w = SumFunctionOnSet(v, K)
    OBVIOUS
  <2>10. SumFunctionOnSet(h, E) = w + l.volume /\ SumFunctionOnSet(v, M) = l.volume + w /\ w \in Int
    BY ONLY <1>13, <1>17, <2>3, <2>4, <2>5, <2>6, <2>7, <2>8, <2>9
  <2>11. w + l.volume = l.volume + w
    BY ONLY <2>7, <2>10
  <2> QED
    BY ONLY <1>6, <1>8, <1>14, <1>16, <2>10, <2>11 DEF Measured
<1>21. CASE ~Crosses(side, limit, l.price)
  <2>1. E = C
    <3>1. ASSUME NEW e \in E PROVE e \in C
      <4>1. e \in 1 .. k + n
        BY ONLY <1>10, <3>1
      <4>2. e \in 1 .. k \/ (e - k \in 1 .. n /\ k + (e - k) = e)
        BY ONLY <1>4, <4>1
      <4> QED
        BY ONLY <1>11, <1>12, <1>21, <3>1, <4>2
    <3> QED
      BY ONLY <1>10, <1>11, <3>1
  <2>2. M = K
    BY ONLY <1>1, <1>15, <1>16, <1>21 DEF CrossingLevels
  <2> QED
    BY ONLY <1>6, <1>8, <1>13, <1>14, <1>16, <1>17, <2>1, <2>2 DEF Measured
<1> QED
  BY <1>20, <1>21

LEMMA QueueMeasured ==
    ASSUME NEW side \in Sides, NEW quants, book[side] \in Seq(Level), SoundSide(side, book[side], quants),
           NEW tside, NEW limit
    PROVE  Measured(book[side], 1 .. Len(book[side]), QueueOf(side), tside, limit)
<1>1. PICK ls : ls = book[side]
  OBVIOUS
<1>2. PICK D : D = 1 .. Len(ls)
  OBVIOUS
<1>3. ls \in Seq(Level) /\ DOMAIN ls = D /\ D \in SUBSET D /\ IsFiniteSet(D) /\ SoundSide(side, ls, quants)
  BY <1>1, <1>2, LenProperties, FS_Interval
<1>4. PICK g : g = Listing(ls, D)
  OBVIOUS
<1>5. IsQueue(ls, D, g)
  BY ONLY <1>2, <1>3, <1>4 DEF IsQueue
<1>6. \A V \in SUBSET D : Shows(ls, V, g[V])
  BY ONLY <1>5, ListingShows
<1> DEFINE Bad == {V \in SUBSET D : ~Measured(ls, V, g[V], tside, limit)}
<1>7. Bad = {}
  <2> SUFFICES ASSUME Bad # {} PROVE FALSE
    OBVIOUS
  <2>1. Bad \subseteq SUBSET D
    OBVIOUS
  <2>2. PICK V \in Bad : \A x \in V : V \ {x} \notin Bad
    <3> HIDE DEF Bad
    <3> QED
      BY ONLY <1>3, <2>1, Bad # {}, SmallestSubset
  <2>3. V \in SUBSET D /\ ~Measured(ls, V, g[V], tside, limit) /\ Inside(V, D) /\ V \subseteq 1 .. Len(ls)
    BY <1>2, <2>2 DEF Inside
  <2>4. Unfolds(ls, D, g, V)
    BY ONLY <1>5, <2>3, ListingStep
  <2>5. CASE V = {}
    <3>1. g[V] = <<>>
      BY ONLY <2>4, <2>5 DEF Unfolds
    <3>2. Crossing(<<>>, tside, limit) = {} /\ CrossingLevels(ls, {}, tside, limit) = {}
      BY DEF Crossing, CrossingLevels
    <3>3. Measured(ls, {}, <<>>, tside, limit)
      BY <3>2, SumEmpty DEF Measured
    <3> QED
      BY ONLY <2>3, <2>5, <3>1, <3>3
  <2>6. CASE V # {}
    <3>1. PICK x \in V : /\ V \ {x} \in SUBSET D
                         /\ g[V] = g[V \ {x}] \o Entries(ls[x])
      BY ONLY <2>4, <2>6 DEF Unfolds
    <3>2. PICK q : q = g[V \ {x}]
      OBVIOUS
    <3>3. Shows(ls, V \ {x}, q)
      BY ONLY <1>6, <3>1, <3>2
    <3>4. Measured(ls, V \ {x}, q, tside, limit)
      BY <2>2, <3>1, <3>2
    <3>5. PICK r : r = q \o Entries(ls[x])
      OBVIOUS
    <3>6. x \in 1 .. Len(ls)
      BY ONLY <2>3, <3>1
    <3>7. Extends(q, ls[x], r)
      BY ONLY <1>3, <3>3, <3>5, <3>6, ConcatIs
    <3>8. Counted(ls[x])
      BY ONLY <1>3, <3>6 DEF SoundSide, Sound
    <3>9. Measured(ls, V, r, tside, limit)
      BY ONLY <1>3, <2>3, <3>1, <3>4, <3>7, <3>8, VolumeMore
    <3> QED
      BY ONLY <2>3, <3>1, <3>2, <3>5, <3>9
  <2> QED
    BY <2>5, <2>6
<1>8. Measured(ls, D, g[D], tside, limit)
  BY <1>3, <1>7
<1>9. QueueOf(side) = g[D]
  BY ONLY <1>1, <1>3, <1>4, QueueIsListing
<1> QED
  BY ONLY <1>1, <1>2, <1>8, <1>9

\* Who accepts a price accepts every one that is not worse.
LEMMA NoWorseCrosses ==
    ASSUME NEW s \in Sides, NEW limit \in Nat, NEW p \in Nat, NEW q \in Nat,
           Crosses(s, limit, p), ~Better(Opposite(s), p, q)
    PROVE  Crosses(s, limit, q)
<1>1. s = "buy" \/ s = "sell"
  BY DEF Sides
<1>2. CASE s = "buy"
  <2>1. Opposite(s) = "sell"
    BY ONLY <1>2 DEF Opposite
  <2>2. ~ (p < q)
    BY ONLY <2>1, ~Better(Opposite(s), p, q) DEF Better
  <2>3. limit = NoPrice \/ p <= limit
    BY ONLY <1>2, Crosses(s, limit, p) DEF Crosses
  <2>4. limit = NoPrice \/ q <= limit
    BY ONLY <2>2, <2>3, limit \in Nat, p \in Nat, q \in Nat
  <2> QED
    BY ONLY <1>2, <2>4 DEF Crosses
<1>3. CASE s = "sell"
  <2>1. Opposite(s) = "buy"
    BY ONLY <1>3 DEF Opposite
  <2>2. ~ (p > q)
    BY ONLY <2>1, ~Better(Opposite(s), p, q) DEF Better
  <2>3. limit = NoPrice \/ p >= limit
    BY ONLY <1>3, Crosses(s, limit, p) DEF Crosses
  <2>4. limit = NoPrice \/ q >= limit
    BY ONLY <2>2, <2>3, limit \in Nat, p \in Nat, q \in Nat
  <2> QED
    BY ONLY <1>3, <2>4 DEF Crosses
<1> QED
  BY <1>1, <1>2, <1>3

\* Prices only get worse along a queue: the makers a taker may trade with are the
\* first ones of it.
LEMMA ReachIs ==
    ASSUME NEW side \in Sides, NEW limit \in Nat, NEW q \in Seq(Maker), InPriority(Opposite(side), q)
    PROVE  \E r \in 0 .. Len(q) : /\ Reachable(q, side, limit) = SubSeq(q, 1, r)
                                  /\ Crossing(q, side, limit) = 1 .. r
<1>1. PICK n : n = Len(q)
  OBVIOUS
<1>2. n \in Nat /\ DOMAIN q = 1 .. n
  BY <1>1, LenProperties
<1>3. PICK C : C = Crossing(q, side, limit)
  OBVIOUS
<1>4. C \subseteq 1 .. n
  BY <1>1, <1>3 DEF Crossing
<1>5. ASSUME NEW i \in 1 .. n, NEW j \in 1 .. n, i < j, j \in C
      PROVE  i \in C
  <2>1. Ahead(Opposite(side), q[i], q[j])
    BY ONLY <1>1, <1>5, InPriority(Opposite(side), q) DEF InPriority
  <2>2. Crosses(side, limit, q[j].price)
    BY ONLY <1>3, <1>5 DEF Crossing
  <2>3. q[i] \in Maker /\ q[j] \in Maker
    BY <1>1, <1>5, ElementOfSeq
  <2>4. q[i].price \in Nat /\ q[j].price \in Nat
    BY ONLY <2>3 DEF Maker
  <2>5. Crosses(side, limit, q[i].price)
    <3>1. CASE q[i].price = q[j].price
      BY ONLY <2>2, <3>1
    <3>2. CASE Better(Opposite(side), q[i].price, q[j].price)
      <4>1. ~Better(Opposite(side), q[j].price, q[i].price)
        BY ONLY <2>4, <3>2 DEF Better
      <4> QED
        BY ONLY <2>2, <2>4, <4>1, side \in Sides, limit \in Nat, NoWorseCrosses
    <3> QED
      BY ONLY <2>1, <3>1, <3>2 DEF Ahead
  <2> QED
    BY ONLY <1>1, <1>3, <1>5, <2>5 DEF Crossing
<1>6. PICK Out : Out = {i \in 1 .. n + 1 : i \notin C}
  OBVIOUS
<1>7. Out \subseteq Nat /\ n + 1 \in Out
  BY ONLY <1>2, <1>4, <1>6
<1>8. PICK m \in Out : \A i \in Out : ~ (i < m)
  BY ONLY <1>7, LeastNumber
<1>9. PICK r : r = m - 1
  OBVIOUS
<1>10. r \in 0 .. n /\ r + 1 \notin C
  BY ONLY <1>2, <1>6, <1>8, <1>9
<1>11. \A i \in 1 .. r : i \in C
  <2> SUFFICES ASSUME NEW i \in 1 .. r, i \notin C PROVE FALSE
    OBVIOUS
  <2>1. i \in 1 .. n + 1 /\ i < m
    BY ONLY <1>2, <1>6, <1>8, <1>9, <1>10, i \in 1 .. r
  <2> QED
    BY ONLY <1>6, <1>8, <2>1, i \notin C
<1>12. C = 1 .. r
  <2> SUFFICES ASSUME NEW i \in C, ~ (i \in 1 .. r) PROVE FALSE
    BY <1>11
  <2>1. i \in 1 .. n
    BY <1>4
  <2>2. r + 1 \in 1 .. n /\ (r + 1 = i \/ r + 1 < i)
    BY ONLY <1>2, <1>10, <2>1, ~ (i \in 1 .. r)
  <2>3. r + 1 \in C
    BY ONLY <1>5, <2>1, <2>2, i \in C
  <2> QED
    BY ONLY <1>10, <2>3
<1>13. \A k \in 0 .. n : (1 .. k \subseteq C /\ k + 1 \notin C) <=> k = r
  <2> SUFFICES ASSUME NEW k \in 0 .. n PROVE (1 .. k \subseteq 1 .. r /\ ~ (k + 1 \in 1 .. r)) <=> k = r
    BY <1>12
  <2>1. k = r => 1 .. k \subseteq 1 .. r /\ ~ (k + 1 \in 1 .. r)
    BY ONLY <1>2, <1>10
  <2>2. k < r => k + 1 \in 1 .. r
    BY ONLY <1>2, <1>10, k \in 0 .. n
  <2>3. r < k => k \in 1 .. k /\ ~ (k \in 1 .. r)
    BY ONLY <1>2, <1>10, k \in 0 .. n
  <2>4. k = r \/ k < r \/ r < k
    BY ONLY <1>2, <1>10, k \in 0 .. n
  <2> QED
    BY ONLY <2>1, <2>2, <2>3, <2>4
<1>14. r = CHOOSE k \in 0 .. n : 1 .. k \subseteq C /\ k + 1 \notin C
  BY ONLY <1>10, <1>13
<1>15. C = {i \in DOMAIN q : Crosses(side, limit, q[i].price)}
  BY ONLY <1>1, <1>2, <1>3 DEF Crossing
<1>16. Reachable(q, side, limit) = SubSeq(q, 1, r)
  BY ONLY <1>1, <1>14, <1>15 DEF Reachable, Leading
<1> QED
  BY ONLY <1>1, <1>3, <1>10, <1>12, <1>16

FirstOf(q, r, p) ==
    /\ p \in Seq(Maker) /\ Len(p) = r /\ DOMAIN p = 1 .. r
    /\ \A i \in 1 .. r : p[i] = q[i]
    /\ Volume(p) = SumFunctionOnSet(Offers(q), 1 .. r)

LEMMA PrefixVolume ==
    ASSUME NEW q \in Seq(Maker), NEW r \in 0 .. Len(q), NEW p, p = SubSeq(q, 1, r)
    PROVE  FirstOf(q, r, p)
<1>1. Len(q) \in Nat
  BY LenProperties
<1>2. p \in Seq(Maker) /\ Len(p) = r /\ \A i \in 1 .. r : p[i] = q[i]
  <2>1. /\ p \in Seq(Maker) /\ Len(p) = IF 1 <= r THEN r - 1 + 1 ELSE 0
        /\ \A i \in 1 .. r - 1 + 1 : p[i] = q[1 + i - 1]
    <3>1. \A i \in 1 .. r : i \in 1 .. Len(q)
      BY <1>1
    <3>2. \A i \in 1 .. Len(q) : q[i] \in Maker
      BY ElementOfSeq
    <3> QED
      BY <1>1, <3>1, <3>2, SubSeqProperties
  <2>2. r \in Nat
    BY <1>1
  <2> QED
    BY ONLY <2>1, <2>2
<1>3. DOMAIN p = 1 .. r
  BY <1>2, LenProperties
<1>4. PICK D : D = 1 .. r
  OBVIOUS
<1>5. PICK f : f = [i \in DOMAIN p |-> p[i].qty]
  OBVIOUS
<1>6. Volume(p) = SumFunctionOnSet(f, D)
  BY ONLY <1>3, <1>4, <1>5 DEF Volume, SumFunction
<1>7. IsFiniteSet(D) /\ \A i \in D : i \in 1 .. Len(q)
  BY <1>1, <1>4, FS_Interval
<1>8. PICK g : g = Offers(q)
  OBVIOUS
<1>9. \A i \in 1 .. Len(q) : g[i] = q[i].qty
  BY ONLY <1>8 DEF Offers
<1>10. \A i \in D : f[i] = g[i]
  BY ONLY <1>2, <1>3, <1>4, <1>5, <1>7, <1>9
<1>11. SumFunctionOnSet(f, D) = SumFunctionOnSet(g, D)
  BY ONLY <1>7, <1>10, SumSame
<1> QED
  BY ONLY <1>2, <1>3, <1>4, <1>6, <1>8, <1>11 DEF FirstOf

LEMMA PrefixOfPrefix ==
    ASSUME NEW q \in Seq(Maker), NEW r \in 0 .. Len(q), NEW p, p = SubSeq(q, 1, r), NEW i \in 1 .. r
    PROVE  Volume(SubSeq(p, 1, i - 1)) = SumFunctionOnSet(Offers(q), 1 .. i - 1)
<1>1. Len(q) \in Nat
  BY LenProperties
<1>2. p \in Seq(Maker) /\ Len(p) = r /\ \A j \in 1 .. r : p[j] = q[j]
  BY PrefixVolume DEF FirstOf
<1>3. PICK j : j = i - 1
  OBVIOUS
<1>4. j \in 0 .. Len(p) /\ j \in 0 .. r /\ r <= Len(q)
  BY <1>1, <1>2, <1>3
<1>5. Volume(SubSeq(p, 1, j)) = SumFunctionOnSet(Offers(p), 1 .. j)
  <2>1. PICK x : x = SubSeq(p, 1, j)
    OBVIOUS
  <2>2. FirstOf(p, j, x)
    BY ONLY <1>2, <1>4, <2>1, PrefixVolume
  <2> QED
    BY ONLY <2>1, <2>2 DEF FirstOf
<1>6. PICK f, g, D : f = Offers(p) /\ g = Offers(q) /\ D = 1 .. j
  OBVIOUS
<1>7. IsFiniteSet(D) /\ \A x \in D : x \in 1 .. r /\ x \in 1 .. Len(q)
  <2>1. j \in Int /\ 1 \in Int /\ j <= r /\ r <= Len(q) /\ r \in Int
    BY <1>1, <1>4
  <2>2. IsFiniteSet(1 .. j)
    BY ONLY <2>1, FS_Interval
  <2> QED
    BY ONLY <1>1, <1>6, <2>1, <2>2
<1>8. \A x \in D : f[x] = g[x]
  <2>1. \A x \in 1 .. r : f[x] = p[x].qty
    BY ONLY <1>2, <1>6 DEF Offers
  <2>2. \A x \in 1 .. Len(q) : g[x] = q[x].qty
    BY ONLY <1>6 DEF Offers
  <2> QED
    BY ONLY <1>2, <1>7, <2>1, <2>2
<1>9. SumFunctionOnSet(f, D) = SumFunctionOnSet(g, D)
  BY ONLY <1>7, <1>8, SumSame
<1> QED
  BY ONLY <1>3, <1>5, <1>6, <1>9

\* What the trades of a call took from one maker.
TakenIn(tr, id) == SumFunction([i \in DOMAIN tr |-> IF tr[i].maker = id THEN tr[i].qty ELSE 0])

LEMMA TakenNone == ASSUME NEW id PROVE TakenIn(<<>>, id) = 0
<1>1. PICK f : f = [i \in DOMAIN <<>> |-> IF <<>>[i].maker = id THEN <<>>[i].qty ELSE 0]
  OBVIOUS
<1>2. DOMAIN f = {}
  BY <1>1
<1>3. TakenIn(<<>>, id) = SumFunctionOnSet(f, {})
  BY ONLY <1>1, <1>2 DEF TakenIn, SumFunction
<1> QED
  BY ONLY <1>3, SumEmpty

LEMMA TakenMore ==
    ASSUME NEW tr \in Seq(Trade), NEW t \in Trade, NEW id
    PROVE  /\ TakenIn(tr, id) \in Int
           /\ TakenIn(Append(tr, t), id) = TakenIn(tr, id) + (IF t.maker = id THEN t.qty ELSE 0)
<1>1. PICK n : n = Len(tr)
  OBVIOUS
<1>2. PICK u : u = Append(tr, t)
  OBVIOUS
<1>3. /\ u \in Seq(Trade) /\ Len(u) = n + 1 /\ n \in Nat /\ u[n + 1] = t
      /\ \A i \in 1 .. n : u[i] = tr[i]
  BY <1>1, <1>2, AppendProperties, LenProperties
<1>4. DOMAIN tr = 1 .. n /\ DOMAIN u = 1 .. n + 1
  BY <1>1, <1>3, LenProperties
<1>5. PICK f : f = [i \in 1 .. n |-> IF tr[i].maker = id THEN tr[i].qty ELSE 0]
  OBVIOUS
<1>6. PICK g : g = [i \in 1 .. n + 1 |-> IF u[i].maker = id THEN u[i].qty ELSE 0]
  OBVIOUS
<1>7. TakenIn(tr, id) = SumFunctionOnSet(f, 1 .. n) /\ TakenIn(u, id) = SumFunctionOnSet(g, 1 .. n + 1)
  BY ONLY <1>4, <1>5, <1>6 DEF TakenIn, SumFunction
<1>8. IsFiniteSet(1 .. n) /\ IsFiniteSet(1 .. n + 1) /\ n + 1 \in 1 .. n + 1 /\ (1 .. n + 1) \ {n + 1} = 1 .. n
  <2>1. n + 1 \in Int /\ n \in Int /\ 1 \in Int
    BY <1>3
  <2>2. IsFiniteSet(1 .. n) /\ IsFiniteSet(1 .. n + 1)
    BY ONLY <2>1, FS_Interval
  <2> QED
    BY <1>3, <2>2
<1>9. \A i \in 1 .. n + 1 : g[i] \in Int
  <2>1. \A i \in 1 .. n + 1 : u[i] \in Trade
    BY <1>3, ElementOfSeq
  <2>2. \A i \in 1 .. n + 1 : u[i].qty \in Int
    BY ONLY <2>1 DEF Trade
  <2> QED
    BY ONLY <1>6, <2>2
<1>10. \A i \in 1 .. n : i \in 1 .. n + 1 /\ f[i] = g[i]
  BY ONLY <1>3, <1>5, <1>6
<1>11. SumFunctionOnSet(g, 1 .. n + 1) = g[n + 1] + SumFunctionOnSet(g, 1 .. n)
  <2>1. PICK D, y : D = 1 .. n + 1 /\ y = n + 1
    OBVIOUS
  <2>2. IsFiniteSet(D) /\ y \in D /\ \A i \in D : g[i] \in Int
    BY ONLY <1>8, <1>9, <2>1
  <2>3. SumFunctionOnSet(g, D) = g[y] + SumFunctionOnSet(g, D \ {y})
    BY ONLY <2>2, SumRemove
  <2> QED
    BY ONLY <1>8, <2>1, <2>3
<1>12. SumFunctionOnSet(f, 1 .. n) = SumFunctionOnSet(g, 1 .. n) /\ SumFunctionOnSet(g, 1 .. n) \in Int
  <2>1. PICK D : D = 1 .. n
    OBVIOUS
  <2>2. IsFiniteSet(D) /\ \A i \in D : f[i] = g[i] /\ g[i] \in Int
    BY ONLY <1>8, <1>9, <1>10, <2>1
  <2>3. SumFunctionOnSet(f, D) = SumFunctionOnSet(g, D) /\ SumFunctionOnSet(g, D) \in Int
    BY ONLY <2>2, SumSame, SumInt
  <2> QED
    BY ONLY <2>1, <2>3
<1>13. g[n + 1] = (IF t.maker = id THEN t.qty ELSE 0) /\ g[n + 1] \in Int
  BY ONLY <1>3, <1>6, <1>8, <1>9
<1>14. PICK w, e : w = SumFunctionOnSet(g, 1 .. n) /\ e = g[n + 1]
  OBVIOUS
<1>15. w \in Int /\ e \in Int /\ TakenIn(tr, id) = w /\ TakenIn(u, id) = e + w
  BY ONLY <1>7, <1>11, <1>12, <1>13, <1>14
<1>16. TakenIn(u, id) = w + e
  BY ONLY <1>15
<1> QED
  BY ONLY <1>2, <1>13, <1>14, <1>15, <1>16

\* Sums over the first k of n numbers.
UpTo(f, k) == SumFunctionOnSet(f, 1 .. k)
Amounts(f, n) == \A i \in 1 .. n : f[i] \in Nat

LEMMA UpToNat ==
    ASSUME NEW n \in Nat, NEW f, Amounts(f, n), NEW k \in 0 .. n
    PROVE  UpTo(f, k) \in Nat /\ \A i \in 1 .. k : f[i] <= UpTo(f, k)
<1>1. PICK D : D = 1 .. k
  OBVIOUS
<1>2. IsFiniteSet(D) /\ \A i \in D : f[i] \in Nat
  <2>1. k \in Int /\ 1 \in Int /\ k <= n
    OBVIOUS
  <2>2. IsFiniteSet(1 .. k)
    BY ONLY <2>1, FS_Interval
  <2>3. \A i \in 1 .. k : i \in 1 .. n
    BY ONLY <2>1, n \in Nat
  <2> QED
    BY ONLY <1>1, <2>2, <2>3, Amounts(f, n) DEF Amounts
<1>3. SumFunctionOnSet(f, D) \in Nat /\ \A i \in D : f[i] <= SumFunctionOnSet(f, D)
  BY ONLY <1>2, SumNat
<1> QED
  BY ONLY <1>1, <1>3 DEF UpTo

LEMMA UpToParts ==
    ASSUME NEW n \in Nat, NEW f, Amounts(f, n), NEW k \in 0 .. n, NEW j \in 0 .. k
    PROVE  /\ UpTo(f, j) <= UpTo(f, k)
           /\ (\A i \in j + 1 .. k : f[i] = 0) => UpTo(f, k) = UpTo(f, j)
<1>1. PICK D : D = 1 .. k
  OBVIOUS
<1>2. PICK R : R = 1 .. j
  OBVIOUS
<1>3. k \in Int /\ 1 \in Int /\ k <= n /\ j \in Int /\ 0 <= j /\ j <= k
  OBVIOUS
<1>4. IsFiniteSet(D) /\ R \subseteq D /\ \A i \in D : f[i] \in Nat /\ f[i] \in Int
  <2>1. IsFiniteSet(1 .. k)
    BY ONLY <1>3, FS_Interval
  <2>2. \A i \in 1 .. k : i \in 1 .. n
    BY ONLY <1>3, n \in Nat
  <2>3. R \subseteq D
    BY ONLY <1>1, <1>2, <1>3
  <2> QED
    BY ONLY <1>1, <2>1, <2>2, <2>3, Amounts(f, n) DEF Amounts
<1>5. SumFunctionOnSet(f, R) <= SumFunctionOnSet(f, D)
  BY ONLY <1>4, SumGrows
<1>6. ASSUME \A i \in j + 1 .. k : f[i] = 0
      PROVE  SumFunctionOnSet(f, D) = SumFunctionOnSet(f, R)
  <2>1. SumFunctionOnSet(f, D) = SumFunctionOnSet(f, R) + SumFunctionOnSet(f, D \ R)
    BY ONLY <1>4, SumSplit
  <2>2. \A i \in D \ R : f[i] = 0
    <3>1. \A i \in D \ R : i \in j + 1 .. k
      BY ONLY <1>1, <1>2, <1>3
    <3> QED
      BY ONLY <1>6, <3>1
  <2>3. IsFiniteSet(D \ R) /\ IsFiniteSet(R) /\ \A i \in R : f[i] \in Int
    BY ONLY <1>4, FS_Subset
  <2>4. SumFunctionOnSet(f, D \ R) = 0
    BY ONLY <2>2, <2>3, SumZero
  <2>5. SumFunctionOnSet(f, R) \in Int
    BY ONLY <2>3, SumInt
  <2>6. PICK v, w : v = SumFunctionOnSet(f, R) /\ w = SumFunctionOnSet(f, D)
    OBVIOUS
  <2>7. v \in Int /\ w = v + 0
    BY ONLY <2>1, <2>4, <2>5, <2>6
  <2>8. w = v
    BY ONLY <2>7
  <2> QED
    BY ONLY <2>6, <2>8
<1> QED
  BY ONLY <1>1, <1>2, <1>5, <1>6 DEF UpTo

LEMMA UpToStep ==
    ASSUME NEW n \in Nat, NEW f, Amounts(f, n), NEW i \in 1 .. n
    PROVE  UpTo(f, i) = UpTo(f, i - 1) + f[i]
<1>1. PICK D : D = 1 .. i
  OBVIOUS
<1>2. IsFiniteSet(D) /\ D \ {i} = 1 .. i - 1 /\ i \in D
  <2>1. i \in Int /\ 1 \in Int /\ 1 <= i
    OBVIOUS
  <2>2. IsFiniteSet(1 .. i)
    BY ONLY <2>1, FS_Interval
  <2> QED
    BY ONLY <1>1, <2>1, <2>2
<1>3. \A x \in D : f[x] \in Int
  <2>1. \A x \in D : x \in 1 .. n
    BY <1>1
  <2> QED
    BY ONLY <2>1, Amounts(f, n) DEF Amounts
<1>4. PICK y : y = i
  OBVIOUS
<1>5. IsFiniteSet(D) /\ y \in D
  BY ONLY <1>2, <1>4
<1>6. SumFunctionOnSet(f, D) = f[y] + SumFunctionOnSet(f, D \ {y})
  BY ONLY <1>3, <1>5, SumRemove
<1>7. UpTo(f, i) = f[i] + UpTo(f, i - 1)
  BY ONLY <1>1, <1>2, <1>4, <1>6 DEF UpTo
<1>8. UpTo(f, i - 1) \in Nat /\ f[i] \in Nat
  <2>1. PICK k : k = i - 1
    OBVIOUS
  <2>2. k \in 0 .. n
    BY <2>1
  <2>3. UpTo(f, k) \in Nat
    BY ONLY <2>2, n \in Nat, Amounts(f, n), UpToNat
  <2> QED
    BY ONLY <2>1, <2>3, i \in 1 .. n, Amounts(f, n) DEF Amounts
<1>9. PICK v, w : v = UpTo(f, i - 1) /\ w = f[i]
  OBVIOUS
<1>10. UpTo(f, i) = w + v /\ v \in Nat /\ w \in Nat
  BY ONLY <1>7, <1>8, <1>9
<1>11. w + v = v + w
  BY ONLY <1>10
<1> QED
  BY ONLY <1>9, <1>10, <1>11

LEMMA UpToSum ==
    ASSUME NEW n \in Nat, NEW f, NEW g, NEW w, Amounts(g, n), Amounts(w, n),
           \A i \in 1 .. n : f[i] = g[i] + w[i], NEW k \in 0 .. n
    PROVE  UpTo(f, k) = UpTo(g, k) + UpTo(w, k)
<1>1. PICK D : D = 1 .. k
  OBVIOUS
<1>2. IsFiniteSet(D) /\ \A x \in D : x \in 1 .. n
  <2>1. k \in Int /\ 1 \in Int /\ k <= n
    OBVIOUS
  <2>2. IsFiniteSet(1 .. k)
    BY ONLY <2>1, FS_Interval
  <2> QED
    BY ONLY <1>1, <2>1, <2>2, n \in Nat
<1>3. \A x \in D : g[x] \in Int /\ w[x] \in Int /\ f[x] = g[x] + w[x]
  BY <1>2 DEF Amounts
<1>4. SumFunctionOnSet(f, D) = SumFunctionOnSet(g, D) + SumFunctionOnSet(w, D)
  BY ONLY <1>2, <1>3, SumPlus
<1> QED
  BY ONLY <1>1, <1>4 DEF UpTo

\* Makers that give in turn, each all it has before the next gives anything, give
\* what the closed form says.  f is what each offers, g what it gave, w what it
\* has left; the first r are acceptable; the taker wants `want` and is left with rem.
InTurn(g, w, n) == \A i, j \in 1 .. n : i < j /\ g[j] > 0 => w[i] = 0
Gives(f, want, i) == Max({0, Min({f[i], want - UpTo(f, i - 1)})})
Divides(f, g, w, n) == \A i \in 1 .. n : f[i] = g[i] + w[i]
UpToPlace(g, n, r) == \A i \in 1 .. n : g[i] > 0 => i <= r
Spent(w, rem, r) == rem = 0 \/ \A i \in 1 .. r : w[i] = 0
Settled(f, g, want, rem, r) ==
    /\ \A i \in 1 .. r : g[i] = Gives(f, want, i)
    /\ want - rem = Min({want, UpTo(f, r)})
    /\ rem > 0 => want - rem = UpTo(f, r)

LEMMA GivesIs ==
    ASSUME NEW v \in Nat, NEW d \in Int
    PROVE  Max({0, Min({v, d})}) = IF d <= 0 THEN 0 ELSE IF v <= d THEN v ELSE d
<1>1. PICK m : m = Min({v, d})
  OBVIOUS
<1>2. m = (IF v <= d THEN v ELSE d) /\ m \in Int
  BY <1>1, SmallerOf
<1>3. Max({0, m}) = IF 0 >= m THEN 0 ELSE m
  BY ONLY <1>2, LargerOf
<1>4. (IF 0 >= m THEN 0 ELSE m) = IF d <= 0 THEN 0 ELSE IF v <= d THEN v ELSE d
  BY ONLY <1>2, v \in Nat, d \in Int
<1> QED
  BY ONLY <1>1, <1>3, <1>4

LEMMA TurnsGive ==
    ASSUME NEW n \in Nat, NEW r \in 0 .. n, NEW f, NEW g, NEW w, Amounts(g, n), Amounts(w, n),
           Divides(f, g, w, n), UpToPlace(g, n, r), InTurn(g, w, n),
           NEW want \in Nat, NEW rem \in Nat, rem <= want, want - rem = UpTo(g, n), Spent(w, rem, r)
    PROVE  Settled(f, g, want, rem, r)
<1>1. Amounts(f, n) /\ \A i \in 1 .. n : f[i] \in Nat /\ g[i] \in Nat /\ w[i] \in Nat /\ f[i] = g[i] + w[i]
  BY DEF Amounts, Divides
<1>2. \A k \in 0 .. n : /\ UpTo(f, k) \in Nat /\ UpTo(g, k) \in Nat /\ UpTo(w, k) \in Nat
                        /\ UpTo(f, k) = UpTo(g, k) + UpTo(w, k)
  <2> SUFFICES ASSUME NEW k \in 0 .. n
               PROVE  /\ UpTo(f, k) \in Nat /\ UpTo(g, k) \in Nat /\ UpTo(w, k) \in Nat
                      /\ UpTo(f, k) = UpTo(g, k) + UpTo(w, k)
    OBVIOUS
  <2>1. UpTo(f, k) \in Nat /\ UpTo(g, k) \in Nat /\ UpTo(w, k) \in Nat
    BY ONLY <1>1, n \in Nat, Amounts(g, n), Amounts(w, n), k \in 0 .. n, UpToNat
  <2>2. UpTo(f, k) = UpTo(g, k) + UpTo(w, k)
    <3>1. \A i \in 1 .. n : f[i] = g[i] + w[i]
      BY ONLY <1>1
    <3> QED
      BY ONLY <3>1, n \in Nat, Amounts(g, n), Amounts(w, n), k \in 0 .. n, UpToSum
  <2> QED
    BY ONLY <2>1, <2>2
<1>3. ASSUME NEW k \in 0 .. n, \A i \in 1 .. n : k < i => g[i] = 0
      PROVE  want - rem = UpTo(g, k)
  <2>1. \A i \in k + 1 .. n : g[i] = 0
    <3>1. \A i \in k + 1 .. n : i \in 1 .. n /\ k < i
      BY ONLY <1>3, n \in Nat
    <3> QED
      BY ONLY <1>3, <3>1
  <2>2. n \in 0 .. n /\ k \in 0 .. n
    BY ONLY <1>3, n \in Nat
  <2>3. UpTo(g, n) = UpTo(g, k)
    BY ONLY <2>1, <2>2, n \in Nat, Amounts(g, n), UpToParts
  <2> QED
    BY <2>3
<1>4. want - rem = UpTo(g, r) /\ r \in 0 .. n
  <2>1. \A i \in 1 .. n : r < i => g[i] = 0
    BY <1>1 DEF UpToPlace
  <2> QED
    BY <1>3, <2>1
<1>5. ASSUME NEW k \in 0 .. n, NEW j \in 0 .. n, j <= k
      PROVE  UpTo(f, j) <= UpTo(f, k) /\ UpTo(g, j) <= UpTo(g, k)
  <2>1. j \in 0 .. k
    BY <1>5
  <2> QED
    BY ONLY <1>1, <1>5, <2>1, n \in Nat, Amounts(g, n), UpToParts
<1>6. ASSUME NEW k \in 0 .. n, \A i \in 1 .. k : w[i] = 0
      PROVE  UpTo(f, k) = UpTo(g, k)
  <2>1. PICK z : z = 0
    OBVIOUS
  <2>2. \A i \in z + 1 .. k : w[i] = 0
    BY ONLY <1>6, <2>1
  <2>3. z \in 0 .. k
    BY <1>6, <2>1
  <2>4. UpTo(w, k) = UpTo(w, z)
    BY ONLY <1>6, <2>2, <2>3, n \in Nat, Amounts(w, n), UpToParts
  <2>5. UpTo(w, z) = 0
    <3>1. 1 .. 0 = {}
      OBVIOUS
    <3> QED
      BY ONLY <2>1, <3>1, SumEmpty DEF UpTo
  <2> QED
    BY ONLY <1>2, <1>6, <2>4, <2>5
<1>7. want - rem = Min({want, UpTo(f, r)}) /\ (rem > 0 => want - rem = UpTo(f, r))
  <2>1. PICK v : v = UpTo(f, r)
    OBVIOUS
  <2>2. v \in Nat /\ want - rem <= v
    BY ONLY <1>2, <1>4, <2>1
  <2>3. rem > 0 => v = want - rem
    <3> SUFFICES ASSUME rem > 0 PROVE v = want - rem
      OBVIOUS
    <3>1. \A i \in 1 .. r : w[i] = 0
      BY DEF Spent
    <3> QED
      BY ONLY <1>4, <1>6, <2>1, <3>1
  <2>4. Min({want, v}) = IF want <= v THEN want ELSE v
    BY <2>2, SmallerOf
  <2>5. want - rem = IF want <= v THEN want ELSE v
    BY ONLY <2>2, <2>3, want \in Nat, rem \in Nat, rem <= want
  <2> QED
    BY ONLY <2>1, <2>3, <2>4, <2>5
<1>8. ASSUME NEW i \in 1 .. r PROVE g[i] = Gives(f, want, i)
  <2>1. PICK d : d = want - UpTo(f, i - 1)
    OBVIOUS
  <2>2. i \in 1 .. n /\ i - 1 \in 0 .. n /\ i \in 0 .. n /\ i <= r
    BY <1>4, <1>8
  <2>3. UpTo(f, i) = UpTo(f, i - 1) + f[i]
    BY ONLY <1>1, <2>2, n \in Nat, UpToStep
  <2>4. UpTo(g, i) = UpTo(g, i - 1) + g[i]
    BY ONLY <2>2, n \in Nat, Amounts(g, n), UpToStep
  <2>5. /\ f[i] \in Nat /\ g[i] \in Nat /\ w[i] \in Nat /\ f[i] = g[i] + w[i]
        /\ UpTo(f, i - 1) \in Nat /\ UpTo(g, i - 1) \in Nat /\ UpTo(g, i) \in Nat /\ UpTo(f, i) \in Nat
        /\ UpTo(g, r) \in Nat /\ UpTo(f, r) \in Nat
    BY ONLY <1>1, <1>2, <1>4, <2>2
  <2>6. d \in Int
    BY ONLY <2>1, <2>5, want \in Nat
  <2>7. Gives(f, want, i) = IF d <= 0 THEN 0 ELSE IF f[i] <= d THEN f[i] ELSE d
    <3>1. Max({0, Min({f[i], d})}) = IF d <= 0 THEN 0 ELSE IF f[i] <= d THEN f[i] ELSE d
      BY ONLY <2>5, <2>6, GivesIs
    <3> QED
      BY ONLY <2>1, <3>1 DEF Gives
  <2>8. UpTo(g, i) <= UpTo(g, r) /\ UpTo(f, i) <= UpTo(f, r)
    BY ONLY <1>4, <1>5, <2>2
  <2>9. CASE \A j \in 1 .. i - 1 : w[j] = 0
    <3>1. UpTo(f, i - 1) = UpTo(g, i - 1)
      BY ONLY <1>6, <2>2, <2>9
    <3>2. d = (want - rem) - UpTo(g, i - 1) + rem
      BY ONLY <2>1, <2>5, <3>1, want \in Nat, rem \in Nat
    <3>3. CASE w[i] = 0
      <4>1. g[i] = f[i]
        BY ONLY <2>5, <3>3
      <4>2. f[i] <= d
        <5>1. PICK a, b, c, e : a = UpTo(g, i - 1) /\ b = UpTo(g, i) /\ c = UpTo(g, r) /\ e = g[i]
          OBVIOUS
        <5>2. /\ a \in Nat /\ b \in Nat /\ c \in Nat /\ e \in Nat /\ b = a + e /\ b <= c
              /\ want - rem = c /\ d = want - a
          BY ONLY <1>4, <2>1, <2>4, <2>5, <2>8, <3>1, <5>1
        <5>3. e <= d
          BY ONLY <5>2, want \in Nat, rem \in Nat
        <5> QED
          BY ONLY <4>1, <5>1, <5>3
      <4> QED
        BY ONLY <2>5, <2>6, <2>7, <4>1, <4>2
    <3>4. CASE w[i] # 0
      <4>1. rem = 0
        BY <1>8, <3>4 DEF Spent
      <4>2. \A j \in 1 .. n : i < j => g[j] = 0
        <5>1. ASSUME NEW j \in 1 .. n, i < j PROVE ~ (g[j] > 0)
          BY ONLY <2>2, <3>4, <5>1, InTurn(g, w, n) DEF InTurn
        <5> QED
          BY ONLY <1>1, <5>1
      <4>3. want - rem = UpTo(g, i)
        BY ONLY <1>3, <2>2, <4>2
      <4>4. d = g[i]
        <5>1. PICK a, b, e : a = UpTo(g, i - 1) /\ b = UpTo(g, i) /\ e = g[i]
          OBVIOUS
        <5>2. /\ a \in Nat /\ b \in Nat /\ e \in Nat /\ b = a + e /\ want - rem = b /\ d = want - a
          BY ONLY <2>1, <2>4, <2>5, <3>1, <4>3, <5>1
        <5>3. d = e
          BY ONLY <4>1, <5>2, want \in Nat
        <5> QED
          BY ONLY <5>1, <5>3
      <4> QED
        BY ONLY <2>5, <2>7, <4>4
    <3> QED
      BY <3>3, <3>4
  <2>10. CASE \E j \in 1 .. i - 1 : w[j] # 0
    <3>1. PICK j \in 1 .. i - 1 : w[j] # 0
      BY ONLY <2>10
    <3>2. j \in 1 .. n /\ j \in 0 .. n /\ j < i /\ j \in 1 .. r /\ j <= i - 1
      BY ONLY <1>4, <2>2, <3>1, n \in Nat
    <3>3. rem = 0
      BY <3>1, <3>2 DEF Spent
    <3>4. \A h \in 1 .. n : j < h => g[h] = 0
      <4>1. ASSUME NEW h \in 1 .. n, j < h PROVE ~ (g[h] > 0)
        BY ONLY <3>1, <3>2, <4>1, InTurn(g, w, n) DEF InTurn
      <4> QED
        BY ONLY <1>1, <4>1
    <3>5. g[i] = 0 /\ want - rem = UpTo(g, j)
      BY ONLY <1>3, <2>2, <3>2, <3>4
    <3>6. UpTo(w, j) > 0
      <4>1. j \in 1 .. j /\ w[j] \in Nat
        BY ONLY <1>1, <3>2
      <4>2. w[j] <= UpTo(w, j)
        BY ONLY <3>2, <4>1, n \in Nat, Amounts(w, n), UpToNat
      <4> QED
        BY ONLY <1>2, <3>1, <3>2, <4>1, <4>2
    <3>7. UpTo(f, j) <= UpTo(f, i - 1)
      BY ONLY <1>5, <2>2, <3>2
    <3>8. d <= 0
      <4>1. PICK a, b, c, e : a = UpTo(g, j) /\ b = UpTo(w, j) /\ c = UpTo(f, j) /\ e = UpTo(f, i - 1)
        OBVIOUS
      <4>2. /\ a \in Nat /\ b \in Nat /\ c \in Nat /\ e \in Nat /\ c = a + b /\ b > 0 /\ c <= e
            /\ want - rem = a /\ d = want - e
        BY ONLY <1>2, <2>1, <2>2, <3>2, <3>5, <3>6, <3>7, <4>1
      <4> QED
        BY ONLY <3>3, <4>2, want \in Nat
    <3> QED
      BY ONLY <2>7, <3>5, <3>8
  <2> QED
    BY <2>9, <2>10
<1> QED
  BY ONLY <1>7, <1>8 DEF Settled

\* What MatchesReference says of a call that is over.
Answers(bf, tk, tr, oc) ==
    LET reach == Reachable(bf, tk.side, tk.price)
        want == IF \/ tk.type = "post_only"
                   \/ tk.type = "fok" /\ Volume(reach) < tk.qty
                THEN 0 ELSE tk.qty
    IN  /\ \A i \in DOMAIN reach : TakenIn(tr, reach[i].id) = Fills(reach, want)[i]
        /\ \A i \in DOMAIN tr : \E k \in DOMAIN reach : reach[k].id = tr[i].maker
        /\ tk.qty - tk.rem = Min({want, Volume(reach)})
        /\ oc # "ok" => tr = <<>>
        /\ tk.type = "fok" /\ oc = "ok" => tk.rem = 0
        /\ tk.type = "post_only" => (oc = "ok" <=> reach = <<>>)

LEMMA ReferenceIs == MatchesReference <=> (phase = "idle" /\ ~overflow => Answers(before, taker, trades, outcome))
  BY Zenon DEF MatchesReference, Answers, TakenFrom, TakenIn

\* What the makers have left in the middle of a call, what they gave, and what
\* keeps the two right: the trades account for what was given, only acceptable
\* makers gave, in turn, and the taker has it.
Left(bf, quants) == [i \in 1 .. Len(bf) |-> quants[bf[i].id]]
Gave(bf, quants) == [i \in 1 .. Len(bf) |-> bf[i].qty - quants[bf[i].id]]

Kept(bf, quants) ==
    \A i \in 1 .. Len(bf) : bf[i].id \in 1 .. Len(quants) /\ quants[bf[i].id] <= bf[i].qty
Accounted(bf, tr, quants) ==
    /\ \A i \in 1 .. Len(bf) : TakenIn(tr, bf[i].id) = bf[i].qty - quants[bf[i].id]
    /\ \A t \in 1 .. Len(tr) : \E i \in 1 .. Len(bf) : bf[i].id = tr[t].maker /\ quants[bf[i].id] < bf[i].qty
Accepted(bf, tk, quants) ==
    \A i \in 1 .. Len(bf) : quants[bf[i].id] < bf[i].qty => i \in Crossing(bf, tk.side, tk.price)
TakenInTurn(bf, quants) ==
    \A i, j \in 1 .. Len(bf) : i < j /\ quants[bf[j].id] < bf[j].qty => quants[bf[i].id] = 0
Received(bf, tk, quants) == tk.qty - tk.rem = UpTo(Gave(bf, quants), Len(bf))
Terms(bf, tk) ==
    /\ tk.type # "post_only"
    /\ tk.type = "fok" => SumFunctionOnSet(Offers(bf), Crossing(bf, tk.side, tk.price)) >= tk.qty

Done(bf, tk, quants) ==
    tk.rem = 0 \/ \A i \in Crossing(bf, tk.side, tk.price) : quants[bf[i].id] = 0

LEMMA AnswersWalk ==
    ASSUME NEW tk \in Order, tk.rem <= tk.qty, NEW bf \in Seq(Maker), InPriority(Opposite(tk.side), bf),
           NEW quants \in Seq(Nat), NEW tr \in Seq(Trade), Kept(bf, quants), Accounted(bf, tr, quants),
           Accepted(bf, tk, quants), TakenInTurn(bf, quants), Received(bf, tk, quants), Terms(bf, tk),
           Done(bf, tk, quants), NEW oc,
           oc = IF tk.rem > 0 /\ tk.type \in {"market", "ioc"} /\ tr = <<>> THEN "no_liquidity" ELSE "ok"
    PROVE  Answers(bf, tk, tr, oc)
<1>1. PICK n : n = Len(bf)
  OBVIOUS
<1>2. PICK f, g, w : f = Offers(bf) /\ g = Gave(bf, quants) /\ w = Left(bf, quants)
  OBVIOUS
<1>3. n \in Nat /\ tk.side \in Sides /\ tk.price \in Nat /\ tk.qty \in Nat /\ tk.rem \in Nat
  BY <1>1, LenProperties DEF Order
<1>4. \A i \in 1 .. n : /\ bf[i].qty \in Nat /\ quants[bf[i].id] \in Nat
                        /\ f[i] = bf[i].qty /\ g[i] = bf[i].qty - quants[bf[i].id] /\ w[i] = quants[bf[i].id]
                        /\ quants[bf[i].id] <= bf[i].qty
  <2> SUFFICES ASSUME NEW i \in 1 .. n
               PROVE  /\ bf[i].qty \in Nat /\ quants[bf[i].id] \in Nat
                      /\ f[i] = bf[i].qty /\ g[i] = bf[i].qty - quants[bf[i].id] /\ w[i] = quants[bf[i].id]
                      /\ quants[bf[i].id] <= bf[i].qty
    OBVIOUS
  <2>1. bf[i] \in Maker
    BY <1>1, ElementOfSeq
  <2>2. bf[i].id \in 1 .. Len(quants) /\ quants[bf[i].id] <= bf[i].qty
    BY <1>1 DEF Kept
  <2>3. quants[bf[i].id] \in Nat
    BY <2>2, ElementOfSeq
  <2>4. f[i] = bf[i].qty /\ g[i] = bf[i].qty - quants[bf[i].id] /\ w[i] = quants[bf[i].id]
    BY ONLY <1>1, <1>2, i \in 1 .. n DEF Offers, Gave, Left
  <2>5. bf[i].qty \in Nat
    BY ONLY <2>1 DEF Maker
  <2> QED
    BY ONLY <2>2, <2>3, <2>4, <2>5
<1>5. /\ Amounts(g, n) /\ Amounts(w, n) /\ \A i \in 1 .. n : f[i] = g[i] + w[i]
  <2>1. ASSUME NEW i \in 1 .. n PROVE g[i] \in Nat /\ w[i] \in Nat /\ f[i] = g[i] + w[i]
    <3>1. PICK a, b : a = bf[i].qty /\ b = quants[bf[i].id]
      OBVIOUS
    <3>2. a \in Nat /\ b \in Nat /\ b <= a /\ f[i] = a /\ g[i] = a - b /\ w[i] = b
      BY ONLY <1>4, <2>1, <3>1
    <3>3. a - b \in Nat /\ a = (a - b) + b
      BY ONLY <3>2
    <3> QED
      BY ONLY <3>2, <3>3
  <2> QED
    BY ONLY <2>1 DEF Amounts
<1>6. PICK r \in 0 .. Len(bf) : /\ Reachable(bf, tk.side, tk.price) = SubSeq(bf, 1, r)
                                /\ Crossing(bf, tk.side, tk.price) = 1 .. r
  BY <1>3, ReachIs
<1>7. PICK reach : reach = SubSeq(bf, 1, r)
  OBVIOUS
<1>8. /\ DOMAIN reach = 1 .. r /\ (\A i \in 1 .. r : reach[i] = bf[i]) /\ Volume(reach) = UpTo(f, r)
      /\ \A i \in 1 .. r : i \in 1 .. n
  <2>1. /\ reach \in Seq(Maker) /\ Len(reach) = r /\ DOMAIN reach = 1 .. r
        /\ \A i \in 1 .. r : reach[i] = bf[i]
        /\ Volume(reach) = SumFunctionOnSet(Offers(bf), 1 .. r)
    <3>1. r \in 0 .. Len(bf)
      OBVIOUS
    <3>2. FirstOf(bf, r, reach)
      BY ONLY <1>7, <3>1, bf \in Seq(Maker), PrefixVolume
    <3> QED
      BY ONLY <3>2 DEF FirstOf
  <2> QED
    BY ONLY <1>1, <1>2, <1>3, <2>1, r \in 0 .. Len(bf) DEF UpTo
<1>9. /\ \A i \in 1 .. r : g[i] = Gives(f, tk.qty, i)
      /\ tk.qty - tk.rem = Min({tk.qty, UpTo(f, r)})
      /\ tk.rem > 0 => tk.qty - tk.rem = UpTo(f, r)
  <2>1. \A i \in 1 .. n : g[i] > 0 => i <= r
    <3> SUFFICES ASSUME NEW i \in 1 .. n, g[i] > 0 PROVE i <= r
      OBVIOUS
    <3>1. quants[bf[i].id] < bf[i].qty
      <4>1. PICK a, b : a = bf[i].qty /\ b = quants[bf[i].id]
        OBVIOUS
      <4>2. a \in Nat /\ b \in Nat /\ a - b > 0
        BY ONLY <1>4, <4>1, i \in 1 .. n, g[i] > 0
      <4> QED
        BY ONLY <4>1, <4>2
    <3>2. i \in 1 .. r
      BY ONLY <1>1, <1>6, <3>1, i \in 1 .. n, Accepted(bf, tk, quants) DEF Accepted
    <3> QED
      BY <3>2
  <2>2. InTurn(g, w, n)
    <3> SUFFICES ASSUME NEW i \in 1 .. n, NEW j \in 1 .. n, i < j, g[j] > 0 PROVE w[i] = 0
      BY DEF InTurn
    <3>1. quants[bf[j].id] < bf[j].qty
      <4>1. PICK a, b : a = bf[j].qty /\ b = quants[bf[j].id]
        OBVIOUS
      <4>2. a \in Nat /\ b \in Nat /\ a - b > 0
        BY ONLY <1>4, <4>1, j \in 1 .. n, g[j] > 0
      <4> QED
        BY ONLY <4>1, <4>2
    <3>2. quants[bf[i].id] = 0
      BY ONLY <1>1, <3>1, i \in 1 .. n, j \in 1 .. n, i < j, TakenInTurn(bf, quants) DEF TakenInTurn
    <3> QED
      BY ONLY <1>4, <3>2, i \in 1 .. n
  <2>3. tk.rem = 0 \/ \A i \in 1 .. r : w[i] = 0
    BY ONLY <1>4, <1>6, <1>8, Done(bf, tk, quants) DEF Done
  <2>4. tk.qty - tk.rem = UpTo(g, n) /\ r \in 0 .. n
    BY ONLY <1>1, <1>2, <1>6, Received(bf, tk, quants) DEF Received
  <2> QED
    <3>1. PICK q, x : q = tk.qty /\ x = tk.rem
      OBVIOUS
    <3>2. /\ q \in Nat /\ x \in Nat /\ x <= q /\ q - x = UpTo(g, n) /\ r \in 0 .. n
          /\ (x = 0 \/ \A i \in 1 .. r : w[i] = 0)
      BY <1>3, <2>3, <2>4, <3>1
    <3>3. Amounts(g, n) /\ Amounts(w, n) /\ Divides(f, g, w, n) /\ UpToPlace(g, n, r) /\ Spent(w, x, r)
      BY ONLY <1>5, <2>1, <3>2 DEF Divides, UpToPlace, Spent
    <3>4. Settled(f, g, q, x, r)
      BY ONLY <1>3, <2>2, <3>2, <3>3, TurnsGive
    <3> QED
      BY ONLY <3>1, <3>4 DEF Settled
<1>10. tk.type = "fok" => Volume(reach) >= tk.qty
  BY ONLY <1>2, <1>6, <1>8, Terms(bf, tk) DEF Terms, UpTo
<1>11. UpTo(f, r) \in Nat
  <2>1. Amounts(f, n)
    BY ONLY <1>4 DEF Amounts
  <2> QED
    BY ONLY <1>1, <1>3, <2>1, r \in 0 .. Len(bf), UpToNat
<1>12. PICK want : want = IF \/ tk.type = "post_only"
                             \/ tk.type = "fok" /\ Volume(reach) < tk.qty
                          THEN 0 ELSE tk.qty
  OBVIOUS
<1>13. want = tk.qty
  BY ONLY <1>3, <1>8, <1>10, <1>11, <1>12, Terms(bf, tk) DEF Terms
<1>14. ASSUME NEW i \in DOMAIN reach PROVE TakenIn(tr, reach[i].id) = Fills(reach, want)[i]
  <2>1. i \in 1 .. r /\ i \in 1 .. n /\ reach[i] = bf[i]
    BY ONLY <1>8, <1>14
  <2>2. TakenIn(tr, bf[i].id) = g[i]
    BY ONLY <1>1, <1>4, <2>1, Accounted(bf, tr, quants) DEF Accounted
  <2>3. Volume(SubSeq(reach, 1, i - 1)) = UpTo(f, i - 1)
    <3>1. Volume(SubSeq(reach, 1, i - 1)) = SumFunctionOnSet(Offers(bf), 1 .. i - 1)
      <4>1. r \in 0 .. Len(bf) /\ i \in 1 .. r
        BY <2>1
      <4> QED
        BY ONLY <1>7, <4>1, bf \in Seq(Maker), PrefixOfPrefix
    <3> QED
      BY ONLY <1>2, <3>1 DEF UpTo
  <2>4. Fills(reach, want)[i] = Max({0, Min({reach[i].qty, want - Volume(SubSeq(reach, 1, i - 1))})})
    BY ONLY <1>14 DEF Fills
  <2>5. Fills(reach, want)[i] = Gives(f, tk.qty, i)
    BY ONLY <1>4, <1>13, <2>1, <2>3, <2>4 DEF Gives
  <2> QED
    BY ONLY <1>9, <2>1, <2>2, <2>5
<1>15. ASSUME NEW i \in DOMAIN tr PROVE \E k \in DOMAIN reach : reach[k].id = tr[i].maker
  <2>1. i \in 1 .. Len(tr)
    BY <1>15, LenProperties
  <2>2. PICK k \in 1 .. Len(bf) : bf[k].id = tr[i].maker /\ quants[bf[k].id] < bf[k].qty
    BY ONLY <2>1, Accounted(bf, tr, quants) DEF Accounted
  <2>3. k \in 1 .. r
    BY ONLY <1>6, <2>2, Accepted(bf, tk, quants) DEF Accepted
  <2> QED
    BY ONLY <1>8, <2>2, <2>3
<1>16. tk.qty - tk.rem = Min({want, Volume(reach)})
  BY ONLY <1>8, <1>9, <1>13
<1>17. tk.type = "fok" => tk.rem = 0
  <2> SUFFICES ASSUME tk.type = "fok", tk.rem > 0 PROVE FALSE
    BY <1>3
  <2>1. PICK v : v = UpTo(f, r)
    OBVIOUS
  <2>2. v \in Nat /\ v >= tk.qty /\ tk.qty - tk.rem = v
    BY <1>8, <1>9, <1>10, <1>11, <2>1
  <2> QED
    BY ONLY <1>3, <2>2, tk.rem > 0
<1>18. tk.type # "post_only" /\ (oc # "ok" => tr = <<>>)
  BY DEF Terms
<1>19. reach = Reachable(bf, tk.side, tk.price)
  BY ONLY <1>6, <1>7
<1> QED
  BY ONLY <1>12, <1>14, <1>15, <1>16, <1>17, <1>18, <1>19 DEF Answers

\* A call that trades nothing because it wants nothing: a Post-Only order, an FOK
\* order for more than the acceptable makers offer, and the engine before its first call.
Idle(bf, tk, oc) ==
    \/ tk.type = "post_only"
    \/ tk.type = "fok" /\ oc # "ok" /\ SumFunctionOnSet(Offers(bf), Crossing(bf, tk.side, tk.price)) < tk.qty
    \/ tk.qty = 0

LEMMA AnswersNothing ==
    ASSUME NEW tk \in Order, tk.rem = tk.qty, NEW bf \in Seq(Maker), InPriority(Opposite(tk.side), bf), NEW oc,
           Idle(bf, tk, oc), tk.type = "post_only" => (oc = "ok" <=> Crossing(bf, tk.side, tk.price) = {})
    PROVE  Answers(bf, tk, <<>>, oc)
<1>1. tk.side \in Sides /\ tk.price \in Nat /\ tk.qty \in Nat /\ tk.rem \in Nat /\ Len(bf) \in Nat
  BY LenProperties DEF Order
<1>2. PICK r \in 0 .. Len(bf) : /\ Reachable(bf, tk.side, tk.price) = SubSeq(bf, 1, r)
                                /\ Crossing(bf, tk.side, tk.price) = 1 .. r
  BY <1>1, ReachIs
<1>3. r \in 0 .. Len(bf)
  OBVIOUS
<1>4. PICK reach : reach = SubSeq(bf, 1, r)
  OBVIOUS
<1>5. FirstOf(bf, r, reach)
  BY ONLY <1>3, <1>4, bf \in Seq(Maker), PrefixVolume
<1>6. Volume(reach) = SumFunctionOnSet(Offers(bf), 1 .. r) /\ DOMAIN reach = 1 .. r /\ Len(reach) = r /\ reach \in Seq(Maker)
  BY ONLY <1>5 DEF FirstOf
<1>7. PICK f, n : f = Offers(bf) /\ n = Len(bf)
  OBVIOUS
<1>8. n \in Nat /\ Amounts(f, n)
  <2>1. \A i \in 1 .. Len(bf) : Offers(bf)[i] \in Nat
    BY OffersAre
  <2> QED
    BY ONLY <1>1, <1>7, <2>1 DEF Amounts
<1>9. \A k \in 0 .. n : UpTo(f, k) \in Nat
  BY ONLY <1>8, UpToNat
<1>10. PICK v : v = Volume(reach)
  OBVIOUS
<1>11. v \in Nat /\ v = UpTo(f, r)
  BY ONLY <1>3, <1>6, <1>7, <1>9, <1>10 DEF UpTo
<1>12. PICK want : want = IF \/ tk.type = "post_only"
                             \/ tk.type = "fok" /\ Volume(reach) < tk.qty
                          THEN 0 ELSE tk.qty
  OBVIOUS
<1>13. want = 0
  BY ONLY <1>2, <1>6, <1>12, Idle(bf, tk, oc) DEF Idle
<1>14. ASSUME NEW i \in DOMAIN reach PROVE TakenIn(<<>>, reach[i].id) = Fills(reach, want)[i]
  <2>1. i \in 1 .. r /\ i - 1 \in 0 .. n /\ i \in 1 .. n
    BY ONLY <1>1, <1>3, <1>6, <1>7, <1>14
  <2>2. Volume(SubSeq(reach, 1, i - 1)) = UpTo(f, i - 1)
    <3>1. Volume(SubSeq(reach, 1, i - 1)) = SumFunctionOnSet(Offers(bf), 1 .. i - 1)
      <4>1. r \in 0 .. Len(bf) /\ i \in 1 .. r
        BY ONLY <1>3, <2>1
      <4> QED
        BY ONLY <1>4, <4>1, bf \in Seq(Maker), PrefixOfPrefix
    <3> QED
      BY ONLY <1>7, <3>1 DEF UpTo
  <2>3. Fills(reach, want)[i] = Max({0, Min({reach[i].qty, want - Volume(SubSeq(reach, 1, i - 1))})})
    BY ONLY <1>14 DEF Fills
  <2>4. PICK e, d : e = reach[i].qty /\ d = 0 - UpTo(f, i - 1)
    OBVIOUS
  <2>5. e \in Nat
    <3>1. reach[i] \in Maker
      BY ONLY <1>6, <1>14, ElementOfSeq
    <3> QED
      BY ONLY <2>4, <3>1 DEF Maker
  <2>6. d \in Int /\ d <= 0
    BY ONLY <1>9, <2>1, <2>4
  <2>7. Max({0, Min({e, d})}) = IF d <= 0 THEN 0 ELSE IF e <= d THEN e ELSE d
    BY ONLY <2>5, <2>6, GivesIs
  <2>8. Fills(reach, want)[i] = 0
    BY ONLY <1>13, <2>2, <2>3, <2>4, <2>6, <2>7
  <2> QED
    BY ONLY <2>8, TakenNone
<1>15. tk.qty - tk.rem = Min({want, Volume(reach)})
  <2>1. PICK z : z = 0
    OBVIOUS
  <2>2. Min({z, v}) = IF z <= v THEN z ELSE v
    <3>1. z \in Int /\ v \in Int
      BY ONLY <1>11, <2>1
    <3> QED
      BY ONLY <3>1, SmallerOf
  <2>3. tk.qty - tk.rem = 0
    BY <1>1
  <2> QED
    BY ONLY <1>10, <1>11, <1>13, <2>1, <2>2, <2>3
<1>16. reach = <<>> <=> Crossing(bf, tk.side, tk.price) = {}
  <2>1. reach = <<>> <=> r = 0
    BY ONLY <1>6, EmptySeq
  <2>2. 1 .. r = {} <=> r = 0
    BY ONLY <1>1, <1>3
  <2> QED
    BY ONLY <1>2, <2>1, <2>2
<1>17. tk.type = "post_only" => (oc = "ok" <=> reach = <<>>)
  BY ONLY <1>16, tk.type = "post_only" => (oc = "ok" <=> Crossing(bf, tk.side, tk.price) = {})
<1>18. tk.type = "fok" /\ oc = "ok" => tk.rem = 0
  BY DEF Idle
<1>19. \A i \in DOMAIN <<>> : \E k \in DOMAIN reach : reach[k].id = <<>>[i].maker
  OBVIOUS
<1>20. reach = Reachable(bf, tk.side, tk.price)
  BY ONLY <1>2, <1>4
<1>21. \A i \in DOMAIN reach : TakenIn(<<>>, reach[i].id) = Fills(reach, want)[i]
  BY ONLY <1>14
<1> QED
  BY ONLY <1>12, <1>15, <1>17, <1>18, <1>19, <1>20, <1>21, Zenon DEF Answers

\* An order rests among the levels, at its price.
Rests(ls, id, p) ==
    \E a \in 1 .. Len(ls) : ls[a].price = p /\ \E b \in 1 .. Len(ls[a].queue) : ls[a].queue[b].id = id

LEMMA RestsAfter ==
    ASSUME NEW ls \in Seq(Level), 1 \in 1 .. Len(ls), NEW t \in Level, t.price = ls[1].price,
           Within(t.queue, ls[1].queue), t.count = Len(t.queue), NEW left, Stays(ls[1].queue, t.queue, left),
           NEW new, new = maybe_compact_level(ls, 1, t), NEW id, NEW p
    PROVE  /\ Rests(new, id, p) => Rests(ls, id, p)
           /\ Rests(ls, id, p) /\ (id # ls[1].queue[1].id \/ left.rem > 0) => Rests(new, id, p)
<1>1. PICK n : n = Len(ls)
  OBVIOUS
<1>2. n \in Nat /\ 1 \in 1 .. n
  BY <1>1, LenProperties
<1>3. t.queue \in Seq(Node) /\ Len(t.queue) \in Nat
  BY QueueType
<1>4. ASSUME NEW b \in 1 .. Len(ls[1].queue), ls[1].queue[b].id = id, id # ls[1].queue[1].id \/ left.rem > 0
      PROVE  \E c \in 1 .. Len(t.queue) : t.queue[c].id = id
  <2>1. b # 1 \/ left.rem > 0
    BY ONLY <1>4
  <2> QED
    BY ONLY <1>4, <2>1, Stays(ls[1].queue, t.queue, left) DEF Stays
<1>5. CASE t.count = 0
  <2>1. new = RemoveAt(ls, 1)
    BY ONLY <1>5, new = maybe_compact_level(ls, 1, t) DEF maybe_compact_level
  <2>2. Len(new) = n - 1 /\ \A j \in 1 .. n - 1 : new[j] = IF j < 1 THEN ls[j] ELSE ls[j + 1]
    BY ONLY <1>1, <1>2, <2>1, ls \in Seq(Level), RemoveAtIs
  <2>3. \A j \in 1 .. n - 1 : j + 1 \in 1 .. n /\ new[j] = ls[j + 1]
    <3>1. \A j \in 1 .. n - 1 : j + 1 \in 1 .. n /\ ~ (j < 1)
      BY ONLY <1>2
    <3> QED
      BY ONLY <2>2, <3>1
  <2>4. ASSUME Rests(new, id, p) PROVE Rests(ls, id, p)
    <3>1. PICK a \in 1 .. Len(new) : new[a].price = p /\ \E b \in 1 .. Len(new[a].queue) : new[a].queue[b].id = id
      BY ONLY <2>4 DEF Rests
    <3>2. a + 1 \in 1 .. Len(ls) /\ new[a] = ls[a + 1]
      BY ONLY <1>1, <2>2, <2>3, <3>1
    <3> QED
      BY ONLY <3>1, <3>2 DEF Rests
  <2>5. ASSUME Rests(ls, id, p), id # ls[1].queue[1].id \/ left.rem > 0 PROVE Rests(new, id, p)
    <3>1. PICK a \in 1 .. Len(ls) : ls[a].price = p /\ \E b \in 1 .. Len(ls[a].queue) : ls[a].queue[b].id = id
      BY ONLY <2>5 DEF Rests
    <3>2. a # 1
      <4> SUFFICES ASSUME a = 1 PROVE FALSE
        OBVIOUS
      <4>1. PICK b \in 1 .. Len(ls[1].queue) : ls[1].queue[b].id = id
        BY ONLY <3>1, a = 1
      <4>2. \E c \in 1 .. Len(t.queue) : t.queue[c].id = id
        BY ONLY <1>4, <2>5, <4>1
      <4>3. Len(t.queue) = 0
        BY <1>5
      <4> QED
        BY ONLY <4>2, <4>3
    <3>3. a - 1 \in 1 .. n - 1 /\ (a - 1) + 1 = a
      BY ONLY <1>1, <1>2, <3>1, <3>2
    <3>4. a - 1 \in 1 .. Len(new) /\ new[a - 1] = ls[a]
      BY ONLY <2>2, <2>3, <3>3
    <3> QED
      BY ONLY <3>1, <3>4 DEF Rests
  <2> QED
    BY ONLY <2>4, <2>5
<1>6. CASE t.count # 0
  <2>1. new = ReplaceAt(ls, 1, t)
    BY ONLY <1>6, new = maybe_compact_level(ls, 1, t) DEF maybe_compact_level
  <2>2. Len(new) = n /\ \A i \in 1 .. n : new[i] = IF i = 1 THEN t ELSE ls[i]
    <3>1. new = [ls EXCEPT ![1] = t]
      BY ONLY <2>1 DEF ReplaceAt
    <3>2. 1 \in 1 .. Len(ls)
      BY ONLY <1>1, <1>2
    <3> QED
      BY ONLY <1>1, <3>1, <3>2, ls \in Seq(Level), t \in Level, ExceptSeq
  <2>3. ASSUME Rests(new, id, p) PROVE Rests(ls, id, p)
    <3>1. PICK a \in 1 .. Len(new) : new[a].price = p /\ \E b \in 1 .. Len(new[a].queue) : new[a].queue[b].id = id
      BY ONLY <2>3 DEF Rests
    <3>2. CASE a = 1
      <4>1. new[a] = t
        BY ONLY <1>2, <2>2, <3>2
      <4>2. PICK b \in 1 .. Len(t.queue) : t.queue[b].id = id
        BY ONLY <3>1, <4>1
      <4>3. \E c \in 1 .. Len(ls[1].queue) : ls[1].queue[c].id = id
        BY ONLY <4>2, Within(t.queue, ls[1].queue) DEF Within
      <4>4. ls[1].price = p
        BY <3>1, <4>1
      <4> QED
        BY ONLY <1>1, <1>2, <4>3, <4>4 DEF Rests
    <3>3. CASE a # 1
      <4>1. a \in 1 .. Len(ls) /\ new[a] = ls[a]
        BY ONLY <1>1, <2>2, <3>1, <3>3
      <4> QED
        BY ONLY <3>1, <4>1 DEF Rests
    <3> QED
      BY <3>2, <3>3
  <2>4. ASSUME Rests(ls, id, p), id # ls[1].queue[1].id \/ left.rem > 0 PROVE Rests(new, id, p)
    <3>1. PICK a \in 1 .. Len(ls) : ls[a].price = p /\ \E b \in 1 .. Len(ls[a].queue) : ls[a].queue[b].id = id
      BY ONLY <2>4 DEF Rests
    <3>2. CASE a = 1
      <4>1. PICK b \in 1 .. Len(ls[1].queue) : ls[1].queue[b].id = id
        BY ONLY <3>1, <3>2
      <4>2. \E c \in 1 .. Len(t.queue) : t.queue[c].id = id
        BY ONLY <1>4, <2>4, <4>1
      <4>3. 1 \in 1 .. Len(new) /\ new[1] = t /\ t.price = p
        <5>1. t.price = ls[1].price
          OBVIOUS
        <5> QED
          BY ONLY <1>2, <2>2, <3>1, <3>2, <5>1
      <4> QED
        BY ONLY <4>2, <4>3 DEF Rests
    <3>3. CASE a # 1
      <4>1. a \in 1 .. Len(new) /\ new[a] = ls[a]
        BY ONLY <1>1, <2>2, <3>1, <3>3
      <4> QED
        BY ONLY <3>1, <4>1 DEF Rests
    <3> QED
      BY <3>2, <3>3
  <2> QED
    BY ONLY <2>3, <2>4
<1> QED
  BY <1>5, <1>6

\* The walking invariant: besides the accounts, the makers that still owe something
\* rest in the book at their price, and no other order does.
Resting(bf, ls, quants) ==
    /\ \A i \in 1 .. Len(bf) : quants[bf[i].id] > 0 => Rests(ls, bf[i].id, bf[i].price)
    /\ \A a \in 1 .. Len(ls) : \A b \in 1 .. Len(ls[a].queue) : \E i \in 1 .. Len(bf) :
          bf[i].id = ls[a].queue[b].id /\ bf[i].price = ls[a].price
Fair(side, bf, tk, tr, ls, quants) ==
    /\ bf \in Seq(Maker) /\ InPriority(side, bf) /\ Kept(bf, quants)
    /\ Accounted(bf, tr, quants) /\ Accepted(bf, tk, quants) /\ TakenInTurn(bf, quants)
    /\ Received(bf, tk, quants) /\ Terms(bf, tk) /\ Resting(bf, ls, quants)

\* Maker k gives q; those before it have nothing left, the others keep what they have.
Turn(bf, quants, after, k, q) ==
    /\ k \in 1 .. Len(bf) /\ q \in Nat /\ q > 0 /\ q <= quants[bf[k].id]
    /\ after[bf[k].id] = quants[bf[k].id] - q
    /\ \A i \in 1 .. Len(bf) : i # k => bf[i].id # bf[k].id /\ after[bf[i].id] = quants[bf[i].id]
    /\ \A i \in 1 .. Len(bf) : i < k => quants[bf[i].id] = 0

LEMMA KeptIs ==
    ASSUME NEW bf \in Seq(Maker), NEW quants \in Seq(Nat), Kept(bf, quants)
    PROVE  /\ Len(bf) \in Nat
           /\ \A i \in 1 .. Len(bf) : /\ bf[i].id \in 1 .. Len(quants) /\ bf[i].qty \in Nat /\ bf[i].price \in Nat
                                      /\ bf[i].id \in Nat
                                      /\ quants[bf[i].id] \in Nat /\ quants[bf[i].id] <= bf[i].qty
<1>1. Len(bf) \in Nat
  BY LenProperties
<1>2. ASSUME NEW i \in 1 .. Len(bf)
      PROVE  /\ bf[i].id \in 1 .. Len(quants) /\ bf[i].qty \in Nat /\ bf[i].price \in Nat /\ bf[i].id \in Nat
             /\ quants[bf[i].id] \in Nat /\ quants[bf[i].id] <= bf[i].qty
  <2>1. bf[i] \in Maker
    BY <1>2, ElementOfSeq
  <2>2. bf[i].qty \in Nat /\ bf[i].price \in Nat /\ bf[i].id \in Nat
    BY ONLY <2>1 DEF Maker
  <2>3. bf[i].id \in 1 .. Len(quants) /\ quants[bf[i].id] <= bf[i].qty
    BY <1>2 DEF Kept
  <2>4. quants[bf[i].id] \in Nat
    BY <2>3, ElementOfSeq
  <2> QED
    BY ONLY <2>2, <2>3, <2>4
<1> QED
  BY ONLY <1>1, <1>2

\* The maker at hand is the first of the queue that has something left: what is left
\* rests in the book, and nothing there comes before the head of its best level.
AtFront(ls, m) == 1 \in 1 .. Len(ls) /\ 1 \in 1 .. Len(ls[1].queue) /\ m = ls[1].queue[1]
Parts(quants, after, m, q) ==
    m.rem = quants[m.id] /\ q \in Nat /\ q > 0 /\ q <= m.rem /\ ElseSame(quants, after, m.id) /\ after[m.id] = m.rem - q
TakesTurn(ls, bf, quants, after, m, q) ==
    \E k \in 1 .. Len(bf) : bf[k].id = m.id /\ bf[k].price = ls[1].price /\ Turn(bf, quants, after, k, q)

LEMMA TurnIs ==
    ASSUME NEW side \in Sides, NEW ls \in Seq(Level), NEW quants \in Seq(Nat), SoundSide(side, ls, quants),
           NEW bf \in Seq(Maker), InPriority(side, bf), Kept(bf, quants), Resting(bf, ls, quants),
           NEW m, AtFront(ls, m), NEW q, NEW after, Parts(quants, after, m, q)
    PROVE  TakesTurn(ls, bf, quants, after, m, q)
<1> USE DEF AtFront, Parts
<1>1. PICK k \in 1 .. Len(bf) : bf[k].id = m.id /\ bf[k].price = ls[1].price
  <2>1. \A a \in 1 .. Len(ls) : \A b \in 1 .. Len(ls[a].queue) : \E i \in 1 .. Len(bf) :
          bf[i].id = ls[a].queue[b].id /\ bf[i].price = ls[a].price
    BY DEF Resting
  <2> QED
    BY <2>1
<1>2. k \in 1 .. Len(bf)
  OBVIOUS
<1>3. /\ Len(bf) \in Nat
      /\ \A i \in 1 .. Len(bf) : /\ bf[i].id \in 1 .. Len(quants) /\ bf[i].price \in Nat
                                 /\ bf[i].id \in Nat /\ quants[bf[i].id] \in Nat
  BY KeptIs
<1>4. ASSUME NEW i \in 1 .. Len(bf), i # k PROVE bf[i].id # bf[k].id /\ after[bf[i].id] = quants[bf[i].id]
  <2>1. i < k \/ k < i
    BY ONLY <1>2, <1>3, <1>4
  <2>2. bf[i].id # bf[k].id
    BY ONLY <1>2, <1>4, <2>1, InPriority(side, bf) DEF InPriority
  <2> QED
    BY ONLY <1>1, <1>3, <1>4, <2>2, ElseSame(quants, after, m.id) DEF ElseSame
<1>5. ASSUME NEW i \in 1 .. Len(bf), i < k PROVE quants[bf[i].id] = 0
  <2>0. quants[bf[i].id] \in Nat
    BY ONLY <1>3, <1>5
  <2> SUFFICES ASSUME quants[bf[i].id] > 0 PROVE FALSE
    BY <2>0
  <2>1. Rests(ls, bf[i].id, bf[i].price)
    BY <1>5 DEF Resting
  <2>2. PICK a \in 1 .. Len(ls) : ls[a].price = bf[i].price /\ \E b \in 1 .. Len(ls[a].queue) : ls[a].queue[b].id = bf[i].id
    BY ONLY <2>1 DEF Rests
  <2>3. PICK b \in 1 .. Len(ls[a].queue) : ls[a].queue[b].id = bf[i].id
    BY ONLY <2>2
  <2>4. /\ ~Better(side, ls[a].price, ls[1].price)
        /\ ls[a].price = ls[1].price => ls[a].queue[b].id >= ls[1].queue[1].id
    BY FirstIsBest
  <2>5. Ahead(side, bf[i], bf[k])
    BY ONLY <1>2, <1>5, InPriority(side, bf) DEF InPriority
  <2>6. ~Better(side, bf[i].price, bf[k].price) /\ (bf[i].price = bf[k].price => bf[i].id >= bf[k].id)
    BY <1>1, <2>2, <2>3, <2>4
  <2>7. bf[i].id \in Nat /\ bf[k].id \in Nat
    BY ONLY <1>2, <1>3, <1>5
  <2> QED
    BY ONLY <2>5, <2>6, <2>7 DEF Ahead
<1>6. after[bf[k].id] = quants[bf[k].id] - q /\ q <= quants[bf[k].id]
  BY <1>1
<1>7. Turn(bf, quants, after, k, q)
  BY ONLY <1>2, <1>4, <1>5, <1>6, q \in Nat, q > 0 DEF Turn
<1> QED
  BY ONLY <1>1, <1>7 DEF TakesTurn

\* Each part of the walking invariant after such a turn.
LEMMA TurnKeeps ==
    ASSUME NEW bf \in Seq(Maker), NEW quants \in Seq(Nat), Kept(bf, quants),
           NEW after, Len(after) = Len(quants), NEW k, NEW q, Turn(bf, quants, after, k, q)
    PROVE  /\ Kept(bf, after)
           /\ \A i \in 1 .. Len(bf) : after[bf[i].id] \in Nat /\ after[bf[i].id] <= quants[bf[i].id]
           /\ after[bf[k].id] < bf[k].qty /\ quants[bf[k].id] > 0
<1>1. \A i \in 1 .. Len(bf) : /\ bf[i].id \in 1 .. Len(quants) /\ bf[i].qty \in Nat
                              /\ quants[bf[i].id] \in Nat /\ quants[bf[i].id] <= bf[i].qty
  BY KeptIs
<1>2. /\ k \in 1 .. Len(bf) /\ q \in Nat /\ q > 0 /\ q <= quants[bf[k].id]
      /\ after[bf[k].id] = quants[bf[k].id] - q
      /\ \A i \in 1 .. Len(bf) : i # k => after[bf[i].id] = quants[bf[i].id]
  BY DEF Turn
<1>3. PICK a, b : a = quants[bf[k].id] /\ b = bf[k].qty
  OBVIOUS
<1>4. a \in Nat /\ b \in Nat /\ a <= b /\ q <= a /\ after[bf[k].id] = a - q
  BY ONLY <1>1, <1>2, <1>3
<1>5. a - q \in Nat /\ a - q <= a /\ a - q < b /\ a > 0 /\ a - q <= b
  BY ONLY <1>2, <1>4
<1>6. ASSUME NEW i \in 1 .. Len(bf)
      PROVE  after[bf[i].id] \in Nat /\ after[bf[i].id] <= quants[bf[i].id] /\ after[bf[i].id] <= bf[i].qty
  <2>1. CASE i = k
    BY ONLY <1>3, <1>4, <1>5, <2>1
  <2>2. CASE i # k
    <3>1. PICK x, y : x = quants[bf[i].id] /\ y = bf[i].qty
      OBVIOUS
    <3>2. x \in Nat /\ x <= y /\ after[bf[i].id] = x
      BY ONLY <1>1, <1>2, <1>6, <2>2, <3>1
    <3>3. x <= x
      BY ONLY <3>2
    <3> QED
      BY ONLY <3>1, <3>2, <3>3
  <2> QED
    BY <2>1, <2>2
<1>7. Kept(bf, after)
  <2>1. \A i \in 1 .. Len(bf) : bf[i].id \in 1 .. Len(after)
    BY <1>1
  <2> QED
    BY ONLY <1>6, <2>1 DEF Kept
<1> QED
  BY ONLY <1>3, <1>4, <1>5, <1>6, <1>7

LEMMA TurnAccounted ==
    ASSUME NEW bf \in Seq(Maker), NEW quants \in Seq(Nat), Kept(bf, quants), NEW tr \in Seq(Trade),
           NEW after, Len(after) = Len(quants), NEW k, NEW q, Turn(bf, quants, after, k, q),
           Accounted(bf, tr, quants), NEW t \in Trade, t.maker = bf[k].id, t.qty = q, NEW new, new = Append(tr, t)
    PROVE  Accounted(bf, new, after)
<1>1. /\ Kept(bf, after)
      /\ \A i \in 1 .. Len(bf) : after[bf[i].id] \in Nat /\ after[bf[i].id] <= quants[bf[i].id]
      /\ after[bf[k].id] < bf[k].qty
  BY TurnKeeps
<1>2. \A i \in 1 .. Len(bf) : bf[i].qty \in Nat /\ quants[bf[i].id] \in Nat
  BY KeptIs
<1>3. /\ k \in 1 .. Len(bf) /\ q \in Nat /\ after[bf[k].id] = quants[bf[k].id] - q
      /\ \A i \in 1 .. Len(bf) : i # k => bf[i].id # bf[k].id /\ after[bf[i].id] = quants[bf[i].id]
  BY DEF Turn
<1>4. ASSUME NEW i \in 1 .. Len(bf) PROVE TakenIn(new, bf[i].id) = bf[i].qty - after[bf[i].id]
  <2>1. PICK x : x = bf[i].id
    OBVIOUS
  <2>2. TakenIn(tr, x) \in Int /\ TakenIn(new, x) = TakenIn(tr, x) + (IF t.maker = x THEN t.qty ELSE 0)
    BY TakenMore
  <2>3. TakenIn(tr, x) = bf[i].qty - quants[x]
    BY <1>4, <2>1 DEF Accounted
  <2>4. PICK a, b : a = bf[i].qty /\ b = quants[x]
    OBVIOUS
  <2>5. a \in Nat /\ b \in Nat
    BY ONLY <1>2, <1>4, <2>1, <2>4
  <2>6. CASE i = k
    <3>1. TakenIn(new, x) = (a - b) + q /\ after[x] = b - q
      BY <1>3, <2>1, <2>2, <2>3, <2>4, <2>6
    <3>2. (a - b) + q = a - (b - q)
      BY ONLY <1>3, <2>5
    <3> QED
      BY ONLY <2>1, <2>4, <3>1, <3>2
  <2>7. CASE i # k
    <3>1. TakenIn(new, x) = (a - b) + 0 /\ after[x] = b
      BY <1>3, <1>4, <2>1, <2>2, <2>3, <2>4, <2>7
    <3>2. (a - b) + 0 = a - b
      BY ONLY <2>5
    <3> QED
      BY ONLY <2>1, <2>4, <3>1, <3>2
  <2> QED
    BY <2>6, <2>7
<1>5. ASSUME NEW h \in 1 .. Len(new)
      PROVE  \E i \in 1 .. Len(bf) : bf[i].id = new[h].maker /\ after[bf[i].id] < bf[i].qty
  <2>1. /\ Len(tr) \in Nat /\ Len(new) = Len(tr) + 1 /\ new[Len(tr) + 1] = t
        /\ \A x \in 1 .. Len(tr) : new[x] = tr[x]
    BY AppendProperties, LenProperties
  <2>2. CASE h = Len(tr) + 1
    <3>1. new[h].maker = bf[k].id
      BY <2>1, <2>2
    <3> QED
      BY ONLY <1>1, <1>3, <3>1
  <2>3. CASE h # Len(tr) + 1
    <3>1. h \in 1 .. Len(tr)
      BY ONLY <1>5, <2>1, <2>3
    <3>2. PICK i \in 1 .. Len(bf) : bf[i].id = tr[h].maker /\ quants[bf[i].id] < bf[i].qty
      BY ONLY <3>1, Accounted(bf, tr, quants) DEF Accounted
    <3>3. PICK a, b, c : a = after[bf[i].id] /\ b = quants[bf[i].id] /\ c = bf[i].qty
      OBVIOUS
    <3>4. a \in Nat /\ b \in Nat /\ c \in Nat /\ a <= b /\ b < c
      BY ONLY <1>1, <1>2, <3>2, <3>3
    <3>5. a < c
      BY ONLY <3>4
    <3> QED
      BY ONLY <2>1, <3>1, <3>2, <3>3, <3>5
  <2> QED
    BY <2>2, <2>3
<1> QED
  BY ONLY <1>4, <1>5 DEF Accounted

LEMMA TurnAccepted ==
    ASSUME NEW bf \in Seq(Maker), NEW quants \in Seq(Nat), NEW after, NEW k, NEW q, Turn(bf, quants, after, k, q),
           NEW tk, Accepted(bf, tk, quants), Crosses(tk.side, tk.price, bf[k].price),
           NEW tk2, tk2.side = tk.side, tk2.price = tk.price
    PROVE  Accepted(bf, tk2, after)
<1>1. k \in 1 .. Len(bf) /\ \A i \in 1 .. Len(bf) : i # k => after[bf[i].id] = quants[bf[i].id]
  BY DEF Turn
<1>2. k \in Crossing(bf, tk.side, tk.price)
  BY <1>1 DEF Crossing
<1>3. ASSUME NEW i \in 1 .. Len(bf), after[bf[i].id] < bf[i].qty PROVE i \in Crossing(bf, tk.side, tk.price)
  <2>1. CASE i = k
    BY ONLY <1>2, <2>1
  <2>2. CASE i # k
    BY ONLY <1>1, <1>3, <2>2, Accepted(bf, tk, quants) DEF Accepted
  <2> QED
    BY <2>1, <2>2
<1> QED
  BY <1>3 DEF Accepted

LEMMA TurnInTurn ==
    ASSUME NEW bf \in Seq(Maker), NEW quants \in Seq(Nat), Kept(bf, quants), TakenInTurn(bf, quants),
           NEW after, Len(after) = Len(quants), NEW k, NEW q, Turn(bf, quants, after, k, q)
    PROVE  TakenInTurn(bf, after)
<1>1. quants[bf[k].id] > 0
  BY TurnKeeps
<1>2. /\ k \in 1 .. Len(bf)
      /\ \A i \in 1 .. Len(bf) : i # k => after[bf[i].id] = quants[bf[i].id]
      /\ \A i \in 1 .. Len(bf) : i < k => quants[bf[i].id] = 0
  BY DEF Turn
<1>3. Len(bf) \in Nat /\ quants[bf[k].id] \in Nat
  BY <1>2, KeptIs
<1>4. ASSUME NEW i \in 1 .. Len(bf), NEW j \in 1 .. Len(bf), i < j, after[bf[j].id] < bf[j].qty
      PROVE  after[bf[i].id] = 0
  <2>1. CASE j = k
    <3>1. i # k
      BY ONLY <1>3, <1>4, <2>1
    <3> QED
      BY ONLY <1>2, <1>4, <2>1, <3>1
  <2>2. CASE j # k
    <3>1. quants[bf[i].id] = 0
      BY ONLY <1>2, <1>4, <2>2, TakenInTurn(bf, quants) DEF TakenInTurn
    <3>2. i # k
      BY ONLY <1>1, <1>3, <3>1
    <3> QED
      BY ONLY <1>2, <1>4, <3>1, <3>2
  <2> QED
    BY <2>1, <2>2
<1> QED
  BY ONLY <1>4 DEF TakenInTurn

LEMMA TurnReceived ==
    ASSUME NEW bf \in Seq(Maker), NEW quants \in Seq(Nat), Kept(bf, quants),
           NEW after, Len(after) = Len(quants), NEW k, NEW q, Turn(bf, quants, after, k, q),
           NEW tk \in Order, Received(bf, tk, quants), NEW tk2, tk2.qty = tk.qty, tk2.rem = tk.rem - q
    PROVE  Received(bf, tk2, after)
<1>1. PICK f, g, D : f = Gave(bf, quants) /\ g = Gave(bf, after) /\ D = 1 .. Len(bf)
  OBVIOUS
<1>2. /\ k \in D /\ q \in Nat /\ after[bf[k].id] = quants[bf[k].id] - q
      /\ \A i \in D : i # k => after[bf[i].id] = quants[bf[i].id]
  BY <1>1 DEF Turn
<1>3. \A i \in D : bf[i].qty \in Nat /\ quants[bf[i].id] \in Nat
  BY <1>1, KeptIs
<1>4. \A i \in D : after[bf[i].id] \in Nat
  BY <1>1, TurnKeeps
<1>5. \A i \in D : f[i] = bf[i].qty - quants[bf[i].id] /\ g[i] = bf[i].qty - after[bf[i].id]
  BY ONLY <1>1 DEF Gave
<1>6. ASSUME NEW i \in D PROVE f[i] \in Int /\ g[i] \in Int
  <2>1. PICK a, b, c : a = bf[i].qty /\ b = quants[bf[i].id] /\ c = after[bf[i].id]
    OBVIOUS
  <2>2. a \in Nat /\ b \in Nat /\ c \in Nat /\ f[i] = a - b /\ g[i] = a - c
    BY ONLY <1>3, <1>4, <1>5, <1>6, <2>1
  <2> QED
    BY ONLY <2>2
<1>7. \A i \in D \ {k} : g[i] = f[i]
  BY ONLY <1>2, <1>5
<1>8. IsFiniteSet(D)
  BY <1>1, LenProperties, FS_Interval
<1>9. PICK v, w, x, y : v = SumFunctionOnSet(f, D) /\ w = SumFunctionOnSet(g, D) /\ x = f[k] /\ y = g[k]
  OBVIOUS
<1>10. w = v + y - x
  BY ONLY <1>2, <1>6, <1>7, <1>8, <1>9, SumChange
<1>11. v \in Int /\ x \in Int /\ y \in Int
  <2>1. \A i \in D : f[i] \in Int
    BY ONLY <1>6
  <2>2. SumFunctionOnSet(f, D) \in Int
    BY ONLY <1>8, <2>1, SumInt
  <2> QED
    BY ONLY <1>2, <1>6, <1>9, <2>2
<1>12. y = x + q
  <2>1. PICK a, b : a = bf[k].qty /\ b = quants[bf[k].id]
    OBVIOUS
  <2>2. a \in Nat /\ b \in Nat /\ x = a - b /\ y = a - (b - q)
    BY ONLY <1>2, <1>3, <1>5, <1>9, <2>1
  <2> QED
    BY ONLY <1>2, <2>2
<1>13. w = v + q
  BY ONLY <1>2, <1>10, <1>11, <1>12
<1>14. PICK a, b : a = tk.qty /\ b = tk.rem
  OBVIOUS
<1>15. a \in Nat /\ b \in Nat /\ a - b = v
  <2>1. a \in Nat /\ b \in Nat
    BY <1>14 DEF Order
  <2>2. a - b = v
    BY ONLY <1>1, <1>9, <1>14, Received(bf, tk, quants) DEF Received, UpTo
  <2> QED
    BY ONLY <2>1, <2>2
<1>16. a - (b - q) = w
  BY ONLY <1>2, <1>13, <1>15
<1>17. tk2.qty = a /\ tk2.rem = b - q
  BY <1>14
<1> QED
  BY ONLY <1>1, <1>9, <1>16, <1>17 DEF Received, UpTo

\* The book after a turn: what rested still does, but for a maker with nothing left.
RestsStill(ls, new, id, gone) ==
    \A x, p : /\ Rests(new, x, p) => Rests(ls, x, p)
              /\ Rests(ls, x, p) /\ (x # id \/ ~gone) => Rests(new, x, p)

LEMMA TurnResting ==
    ASSUME NEW bf \in Seq(Maker), NEW quants \in Seq(Nat), Kept(bf, quants),
           NEW after, Len(after) = Len(quants), NEW k, NEW q, Turn(bf, quants, after, k, q),
           NEW ls, Resting(bf, ls, quants), NEW new, RestsStill(ls, new, bf[k].id, ~ (after[bf[k].id] > 0))
    PROVE  Resting(bf, new, after)
<1>1. /\ k \in 1 .. Len(bf)
      /\ \A i \in 1 .. Len(bf) : i # k => bf[i].id # bf[k].id /\ after[bf[i].id] = quants[bf[i].id]
  BY DEF Turn
<1>2. quants[bf[k].id] > 0
  BY TurnKeeps
<1>3. ASSUME NEW i \in 1 .. Len(bf), after[bf[i].id] > 0 PROVE Rests(new, bf[i].id, bf[i].price)
  <2>1. quants[bf[i].id] > 0
    BY ONLY <1>1, <1>2, <1>3
  <2>2. Rests(ls, bf[i].id, bf[i].price)
    BY ONLY <1>3, <2>1, Resting(bf, ls, quants) DEF Resting
  <2>3. bf[i].id # bf[k].id \/ ~~ (after[bf[k].id] > 0)
    BY ONLY <1>1, <1>3
  <2> QED
    BY ONLY <2>2, <2>3, RestsStill(ls, new, bf[k].id, ~ (after[bf[k].id] > 0)), Zenon DEF RestsStill
<1>4. ASSUME NEW a \in 1 .. Len(new), NEW b \in 1 .. Len(new[a].queue)
      PROVE  \E i \in 1 .. Len(bf) : bf[i].id = new[a].queue[b].id /\ bf[i].price = new[a].price
  <2>1. PICK x, p : x = new[a].queue[b].id /\ p = new[a].price
    OBVIOUS
  <2>2. Rests(new, x, p)
    BY ONLY <1>4, <2>1 DEF Rests
  <2>3. Rests(ls, x, p)
    BY ONLY <2>2, RestsStill(ls, new, bf[k].id, ~ (after[bf[k].id] > 0)), Zenon DEF RestsStill
  <2>4. PICK c \in 1 .. Len(ls) : ls[c].price = p /\ \E d \in 1 .. Len(ls[c].queue) : ls[c].queue[d].id = x
    BY ONLY <2>3 DEF Rests
  <2>5. PICK d \in 1 .. Len(ls[c].queue) : ls[c].queue[d].id = x
    BY ONLY <2>4
  <2>6. \E i \in 1 .. Len(bf) : bf[i].id = ls[c].queue[d].id /\ bf[i].price = ls[c].price
    BY ONLY <2>4, <2>5, Resting(bf, ls, quants) DEF Resting
  <2> QED
    BY ONLY <2>1, <2>4, <2>5, <2>6
<1> QED
  BY ONLY <1>3, <1>4 DEF Resting

LEMMA TurnFair ==
    ASSUME NEW side \in Sides, NEW ls \in Seq(Level), NEW quants \in Seq(Nat), SoundSide(side, ls, quants),
           NEW m, AtFront(ls, m), NEW q, NEW after, Parts(quants, after, m, q),
           NEW bf, NEW tk \in Order, NEW tr \in Seq(Trade), Fair(side, bf, tk, tr, ls, quants),
           Crosses(tk.side, tk.price, ls[1].price),
           NEW tk2, tk2.side = tk.side, tk2.price = tk.price, tk2.type = tk.type, tk2.qty = tk.qty, tk2.rem = tk.rem - q,
           NEW t \in Trade, t.maker = m.id, t.qty = q, NEW new, RestsStill(ls, new, m.id, ~ (after[m.id] > 0))
    PROVE  Fair(side, bf, tk2, Append(tr, t), new, after)
<1>1. /\ bf \in Seq(Maker) /\ InPriority(side, bf) /\ Kept(bf, quants)
      /\ Accounted(bf, tr, quants) /\ Accepted(bf, tk, quants) /\ TakenInTurn(bf, quants)
      /\ Received(bf, tk, quants) /\ Terms(bf, tk) /\ Resting(bf, ls, quants)
  BY DEF Fair
<1>2. Len(after) = Len(quants) /\ quants \in Seq(Nat)
  BY DEF Parts, ElseSame
<1>3. PICK k \in 1 .. Len(bf) : bf[k].id = m.id /\ bf[k].price = ls[1].price /\ Turn(bf, quants, after, k, q)
  <2>1. side \in Sides /\ ls \in Seq(Level) /\ SoundSide(side, ls, quants) /\ AtFront(ls, m) /\ Parts(quants, after, m, q)
    OBVIOUS
  <2>2. TakesTurn(ls, bf, quants, after, m, q)
    BY ONLY <1>1, <1>2, <2>1, TurnIs
  <2> QED
    BY ONLY <2>2 DEF TakesTurn
<1>4. Turn(bf, quants, after, k, q)
  BY ONLY <1>3
<1>5. Kept(bf, after)
  BY ONLY <1>1, <1>2, <1>4, TurnKeeps
<1>6. PICK longer : longer = Append(tr, t)
  OBVIOUS
<1>7. Accounted(bf, longer, after)
  <2>1. tr \in Seq(Trade) /\ t \in Trade /\ t.maker = bf[k].id /\ t.qty = q
    BY <1>3
  <2> QED
    BY ONLY <1>1, <1>2, <1>4, <1>6, <2>1, TurnAccounted
<1>8. Accepted(bf, tk2, after)
  <2>1. Crosses(tk.side, tk.price, bf[k].price) /\ tk2.side = tk.side /\ tk2.price = tk.price
    BY <1>3
  <2> QED
    BY ONLY <1>1, <1>2, <1>4, <2>1, TurnAccepted
<1>9. TakenInTurn(bf, after)
  BY ONLY <1>1, <1>2, <1>4, TurnInTurn
<1>10. Received(bf, tk2, after)
  BY ONLY <1>1, <1>2, <1>4, tk \in Order, tk2.qty = tk.qty, tk2.rem = tk.rem - q, TurnReceived
<1>11. Terms(bf, tk2)
  BY <1>1 DEF Terms
<1>12. Resting(bf, new, after)
  <2>1. RestsStill(ls, new, bf[k].id, ~ (after[bf[k].id] > 0))
    BY ONLY <1>3, RestsStill(ls, new, m.id, ~ (after[m.id] > 0))
  <2> QED
    BY ONLY <1>1, <1>2, <1>4, <2>1, TurnResting
<1> QED
  BY ONLY <1>1, <1>5, <1>6, <1>7, <1>8, <1>9, <1>10, <1>11, <1>12 DEF Fair

Midway == phase = "walking" => Fair(Opp, before, taker, trades, book[Opp], owed)

LEMMA FillFair == ASSUME EngineInv, Midway, FillMaker PROVE Midway'
<1>1. PICK ls, l, m, q, left, t, after, new : Trading(ls, l, m, q, left, t, after, new)
  BY FillStep
<1>2. phase = "walking" /\ before' = before /\ Crosses(taker.side, taker.price, book[Opp][1].price)
  BY DEF FillMaker, WantsBest
<1>3. PICK side : side = Opp
  OBVIOUS
<1>4. PICK bf, tk, tr, quants, tk2, trade : /\ bf = before /\ tk = taker /\ tr = trades /\ quants = owed /\ tk2 = taker'
                                            /\ trade = [maker |-> m.id, price |-> l.price, qty |-> q]
  OBVIOUS
<1>5. Fair(side, bf, tk, tr, ls, quants) /\ Crosses(tk.side, tk.price, ls[1].price)
  <2>1. Fair(Opp, before, taker, trades, book[Opp], owed)
    BY ONLY <1>2, Midway DEF Midway
  <2>2. ls = book[Opp]
    BY ONLY <1>1, Zenon DEF Trading
  <2> QED
    BY ONLY <1>2, <1>3, <1>4, <2>1, <2>2
<1>6. /\ side \in Sides /\ ls \in Seq(Level) /\ SoundSide(side, ls, quants)
      /\ tk \in Order /\ tr \in Seq(Trade) /\ quants \in Seq(Nat)
  <2>1. SoundBook /\ Opp \in Sides /\ ls \in Seq(Level) /\ ls = book[Opp] /\ taker \in Order
    BY ONLY <1>1, Zenon DEF Trading
  <2>2. trades \in Seq(Trade) /\ owed \in Seq(Nat)
    BY DEF EngineInv, CallTypes, BookTypes
  <2>3. SoundSide(Opp, book[Opp], owed)
    BY ONLY <2>1 DEF SoundBook
  <2> QED
    BY ONLY <1>3, <1>4, <2>1, <2>2, <2>3
<1>7. /\ 1 \in 1 .. Len(ls) /\ l = ls[1] /\ 1 \in 1 .. Len(l.queue) /\ m = l.queue[1] /\ m \in Node
      /\ l \in Level /\ q \in Nat /\ AtFront(ls, m)
  <2>1. /\ 1 \in 1 .. Len(ls) /\ l = ls[1] /\ 1 \in 1 .. Len(l.queue) /\ m = l.queue[1] /\ m \in Node
        /\ l \in Level /\ q \in Nat
    BY ONLY <1>1, Zenon DEF Trading
  <2> QED
    BY ONLY <2>1 DEF AtFront
<1>8. Parts(quants, after, m, q)
  <2>1. /\ Promised(m, owed) /\ q \in Nat /\ q > 0 /\ q <= m.rem /\ ElseSame(owed, after, m.id)
        /\ after[m.id] = m.rem - q
    BY ONLY <1>1, Zenon DEF Trading
  <2>2. m.rem = owed[m.id]
    BY ONLY <2>1 DEF Promised
  <2> QED
    BY ONLY <1>4, <2>1, <2>2 DEF Parts
<1>9. /\ tk2.side = tk.side /\ tk2.price = tk.price /\ tk2.type = tk.type /\ tk2.qty = tk.qty
      /\ tk2.rem = tk.rem - q
  <2>1. taker' = [taker EXCEPT !.rem = @ - q]
    BY ONLY <1>1, Zenon DEF Trading
  <2>2. tk2 = [tk EXCEPT !.rem = @ - q]
    BY ONLY <1>4, <2>1
  <2> QED
    BY ONLY <1>6, <2>2 DEF Order
<1>10. trade \in Trade /\ trade.maker = m.id /\ trade.qty = q
  <2>1. m.id \in Nat
    BY ONLY <1>7 DEF Node
  <2>2. l.price \in Nat
    BY <1>7, QueueType
  <2> QED
    BY ONLY <1>4, <1>7, <2>1, <2>2 DEF Trade
<1>11. RestsStill(ls, new, m.id, ~ (after[m.id] > 0))
  <2>1. /\ t \in Level /\ t.price = ls[1].price /\ Within(t.queue, ls[1].queue) /\ Stays(ls[1].queue, t.queue, left)
        /\ new = maybe_compact_level(ls, 1, t) /\ left.rem = after[m.id] /\ m.id = ls[1].queue[1].id
    <3>1. /\ t \in Level /\ t.price = l.price /\ Within(t.queue, l.queue) /\ Stays(l.queue, t.queue, left)
          /\ new = maybe_compact_level(ls, 1, t) /\ left.rem = m.rem - q /\ after[m.id] = m.rem - q
      BY ONLY <1>1, Zenon DEF Trading
    <3> QED
      BY ONLY <1>7, <3>1
  <2>2. t.count = Len(t.queue)
    <3>1. Sound(t, after)
      BY ONLY <1>1, Zenon DEF Trading
    <3> QED
      BY ONLY <3>1 DEF Sound, Counted
  <2>3. ASSUME NEW x, NEW p
        PROVE  /\ Rests(new, x, p) => Rests(ls, x, p)
               /\ Rests(ls, x, p) /\ (x # m.id \/ ~~ (after[m.id] > 0)) => Rests(new, x, p)
    <3>1. /\ Rests(new, x, p) => Rests(ls, x, p)
          /\ Rests(ls, x, p) /\ (x # ls[1].queue[1].id \/ left.rem > 0) => Rests(new, x, p)
      <4>1. ls \in Seq(Level) /\ 1 \in 1 .. Len(ls)
        BY ONLY <1>6, <1>7
      <4> QED
        BY ONLY <2>1, <2>2, <4>1, RestsAfter
    <3> QED
      BY ONLY <2>1, <3>1
  <2> QED
    BY ONLY <2>3 DEF RestsStill
<1>12. Fair(side, bf, tk2, Append(tr, trade), new, after)
  BY ONLY <1>5, <1>6, <1>7, <1>8, <1>9, <1>10, <1>11, TurnFair
<1>13. Opp' = side /\ side = Opp
  <2>1. taker'.side = taker.side
    BY ONLY <1>4, <1>9
  <2> QED
    BY ONLY <1>3, <2>1 DEF Opp
<1>14. book'[side] = new /\ trades' = Append(tr, trade) /\ owed' = after /\ taker' = tk2 /\ before' = bf
  <2>1. /\ trades' = Append(trades, [maker |-> m.id, price |-> l.price, qty |-> q]) /\ after = owed'
        /\ book' = [book EXCEPT ![Opp] = maybe_compact_level(@, 1, t)]
        /\ ls = book[Opp] /\ new = maybe_compact_level(ls, 1, t)
    BY ONLY <1>1, Zenon DEF Trading
  <2>2. book' = [book EXCEPT ![side] = new]
    <3>1. book' = [book EXCEPT ![side] = maybe_compact_level(book[side], 1, t)]
      BY ONLY <1>3, <2>1
    <3> QED
      BY ONLY <1>3, <2>1, <3>1
  <2>3. book'[side] = new
    <3>1. book \in [Sides -> Seq(Level)]
      BY DEF EngineInv, BookTypes
    <3> QED
      BY ONLY <1>6, <2>2, <3>1
  <2> QED
    BY ONLY <1>2, <1>4, <2>1, <2>3
<1>15. Fair(side, before', taker', trades', book'[side], owed')
  BY ONLY <1>12, <1>14
<1>16. Fair(Opp, before, taker, trades, book[Opp], owed)'
  BY ONLY <1>13, <1>15
<1> QED
  BY ONLY <1>16 DEF Midway

\* A call starts fair: nothing is taken yet and every maker is in the book.
LEMMA StartFair ==
    ASSUME NEW side \in Sides, NEW ls \in Seq(Level), NEW quants \in Seq(Nat), SoundSide(side, ls, quants),
           NEW bf, Shows(ls, 1 .. Len(ls), bf), InPriority(side, bf),
           NEW tk \in Order, tk.rem = tk.qty, Terms(bf, tk)
    PROVE  Fair(side, bf, tk, <<>>, ls, quants)
<1>1. bf \in Seq(Maker)
  BY DEF Shows, Maker
<1>2. ASSUME NEW i \in 1 .. Len(bf)
      PROVE  /\ bf[i].id \in 1 .. Len(quants) /\ quants[bf[i].id] = bf[i].qty /\ bf[i].qty \in Nat
             /\ Rests(ls, bf[i].id, bf[i].price)
  <2>1. PICK a \in 1 .. Len(ls) : \E b \in 1 .. Len(ls[a].queue) : bf[i] = Entry(ls[a], b)
    BY ONLY <1>2, Shows(ls, 1 .. Len(ls), bf) DEF Shows
  <2>2. PICK b \in 1 .. Len(ls[a].queue) : bf[i] = Entry(ls[a], b)
    BY ONLY <2>1
  <2>3. bf[i].id = ls[a].queue[b].id /\ bf[i].price = ls[a].price /\ bf[i].qty = ls[a].queue[b].rem
    BY ONLY <2>2 DEF Entry
  <2>4. Promised(ls[a].queue[b], quants)
    <3>1. Sound(ls[a], quants)
      BY ONLY <2>1, SoundSide(side, ls, quants) DEF SoundSide
    <3> QED
      BY ONLY <2>2, <3>1 DEF Sound, Backed
  <2>5. bf[i].id \in 1 .. Len(quants) /\ quants[bf[i].id] = bf[i].qty
    BY ONLY <2>3, <2>4 DEF Promised
  <2>6. bf[i] \in Maker
    BY ONLY <1>1, <1>2, ElementOfSeq
  <2>7. bf[i].qty \in Nat
    BY ONLY <2>6 DEF Maker
  <2>8. Rests(ls, bf[i].id, bf[i].price)
    BY ONLY <2>1, <2>2, <2>3 DEF Rests
  <2> QED
    BY ONLY <2>5, <2>7, <2>8
<1>3. ASSUME NEW i \in 1 .. Len(bf)
      PROVE  /\ quants[bf[i].id] <= bf[i].qty /\ ~ (quants[bf[i].id] < bf[i].qty)
             /\ bf[i].qty - quants[bf[i].id] = 0
  <2>1. PICK x : x = bf[i].qty
    OBVIOUS
  <2>2. x \in Nat /\ quants[bf[i].id] = x
    BY ONLY <1>2, <1>3, <2>1
  <2>3. x <= x /\ ~ (x < x) /\ x - x = 0
    BY ONLY <2>2
  <2> QED
    BY ONLY <2>1, <2>2, <2>3
<1>4. Kept(bf, quants)
  BY ONLY <1>2, <1>3 DEF Kept
<1>5. Accounted(bf, <<>>, quants)
  <2>1. \A i \in 1 .. Len(bf) : TakenIn(<<>>, bf[i].id) = bf[i].qty - quants[bf[i].id]
    BY ONLY <1>3, TakenNone
  <2>2. ~ \E h \in 1 .. Len(<<>>) : TRUE
    OBVIOUS
  <2> QED
    BY ONLY <2>1, <2>2 DEF Accounted
<1>6. Accepted(bf, tk, quants) /\ TakenInTurn(bf, quants)
  BY ONLY <1>3 DEF Accepted, TakenInTurn
<1>7. Received(bf, tk, quants)
  <2>1. PICK g, D : g = Gave(bf, quants) /\ D = 1 .. Len(bf)
    OBVIOUS
  <2>2. IsFiniteSet(D)
    BY <1>1, <2>1, LenProperties, FS_Interval
  <2>3. \A i \in D : g[i] = 0
    BY ONLY <1>3, <2>1 DEF Gave
  <2>4. SumFunctionOnSet(g, D) = 0
    BY ONLY <2>2, <2>3, SumZero
  <2>5. tk.qty - tk.rem = 0
    BY DEF Order
  <2> QED
    BY ONLY <2>1, <2>4, <2>5 DEF Received, UpTo
<1>8. Resting(bf, ls, quants)
  <2>1. ASSUME NEW a \in 1 .. Len(ls), NEW b \in 1 .. Len(ls[a].queue)
        PROVE  \E i \in 1 .. Len(bf) : bf[i].id = ls[a].queue[b].id /\ bf[i].price = ls[a].price
    <3>1. PICK i \in 1 .. Len(bf) : bf[i] = Entry(ls[a], b)
      BY ONLY <2>1, Shows(ls, 1 .. Len(ls), bf) DEF Shows
    <3>2. bf[i].id = ls[a].queue[b].id /\ bf[i].price = ls[a].price
      BY ONLY <3>1 DEF Entry
    <3> QED
      BY ONLY <3>1, <3>2
  <2> QED
    BY ONLY <1>2, <2>1 DEF Resting
<1> QED
  BY ONLY <1>1, <1>4, <1>5, <1>6, <1>7, <1>8, InPriority(side, bf), Terms(bf, tk) DEF Fair

\* The Post-Only guard looks at one price only, and that is enough.
GuardTells(ls, bf, tk) ==
    (ls # <<>> /\ Crosses(tk.side, tk.price, ls[1].price)) <=> Crossing(bf, tk.side, tk.price) # {}

LEMMA CrossIs ==
    ASSUME NEW side \in Sides, NEW ls \in Seq(Level), NEW quants, SoundSide(side, ls, quants),
           NEW bf, Shows(ls, 1 .. Len(ls), bf), NEW tk \in Order, side = Opposite(tk.side)
    PROVE  GuardTells(ls, bf, tk)
<1>1. Len(ls) \in Nat /\ tk.side \in Sides /\ tk.price \in Nat
  BY LenProperties DEF Order
<1>2. ASSUME ls # <<>>, Crosses(tk.side, tk.price, ls[1].price)
      PROVE  Crossing(bf, tk.side, tk.price) # {}
  <2>1. 1 \in 1 .. Len(ls)
    BY <1>1, <1>2, EmptySeq
  <2>2. ls[1].queue # <<>> /\ ls[1] \in Level
    BY <2>1, ElementOfSeq DEF SoundSide
  <2>3. 1 \in 1 .. Len(ls[1].queue)
    <3>1. ls[1].queue \in Seq(Node)
      BY <2>2, QueueType
    <3> QED
      BY <2>2, <3>1
  <2>4. \A a \in 1 .. Len(ls) : \A b \in 1 .. Len(ls[a].queue) : \E i \in 1 .. Len(bf) : bf[i] = Entry(ls[a], b)
    BY DEF Shows
  <2>5. PICK i \in 1 .. Len(bf) : bf[i] = Entry(ls[1], 1)
    BY ONLY <2>1, <2>3, <2>4
  <2>6. bf[i].price = ls[1].price
    BY ONLY <2>5 DEF Entry
  <2> QED
    BY ONLY <1>2, <2>5, <2>6 DEF Crossing
<1>3. ASSUME NEW i \in Crossing(bf, tk.side, tk.price)
      PROVE  ls # <<>> /\ Crosses(tk.side, tk.price, ls[1].price)
  <2>1. i \in 1 .. Len(bf) /\ Crosses(tk.side, tk.price, bf[i].price)
    BY ONLY <1>3 DEF Crossing
  <2>2. PICK a \in 1 .. Len(ls) : \E b \in 1 .. Len(ls[a].queue) : bf[i] = Entry(ls[a], b)
    BY ONLY <2>1, Shows(ls, 1 .. Len(ls), bf) DEF Shows
  <2>3. PICK b \in 1 .. Len(ls[a].queue) : bf[i] = Entry(ls[a], b)
    BY ONLY <2>2
  <2>4. bf[i].price = ls[a].price
    BY ONLY <2>3 DEF Entry
  <2>5. 1 \in 1 .. Len(ls) /\ ls # <<>>
    BY <1>1, <2>2, EmptySeq
  <2>6. ~Better(side, ls[a].price, ls[1].price)
    BY <2>5, FirstIsBest
  <2>7. ls[a].price \in Nat /\ ls[1].price \in Nat
    BY <2>5, QueueType, ElementOfSeq
  <2>8. side = Opposite(tk.side)
    OBVIOUS
  <2>9. Crosses(tk.side, tk.price, ls[1].price)
    <3>1. ~Better(Opposite(tk.side), ls[a].price, ls[1].price)
      BY ONLY <2>6, <2>8
    <3>2. Crosses(tk.side, tk.price, ls[a].price)
      BY ONLY <2>1, <2>4
    <3> QED
      BY ONLY <1>1, <2>7, <3>1, <3>2, NoWorseCrosses
  <2> QED
    BY ONLY <2>5, <2>9
<1> QED
  BY ONLY <1>2, <1>3 DEF GuardTells

\* The FOK precheck adds up the cached volumes of the acceptable levels: it measures
\* what the acceptable makers offer.
LEMMA PrecheckIs ==
    ASSUME NEW o, NEW ls \in Seq(Level), ls = book[Opposite(o.side)], NEW bf,
           Measured(ls, 1 .. Len(ls), bf, o.side, o.price)
    PROVE  precheck_fok(o) <=> SumFunctionOnSet(Offers(bf), Crossing(bf, o.side, o.price)) >= o.qty
<1>1. DOMAIN ls = 1 .. Len(ls) /\ Len(ls) \in Nat
  BY LenProperties
<1>2. PICK ok : ok = {i \in DOMAIN ls : Crosses(o.side, o.price, ls[i].price)}
  OBVIOUS
<1>3. ok = CrossingLevels(ls, 1 .. Len(ls), o.side, o.price)
  BY ONLY <1>1, <1>2 DEF CrossingLevels
<1>4. IsFiniteSet(ok) /\ \A i \in ok : i \in 1 .. Len(ls)
  <2>1. IsFiniteSet(1 .. Len(ls))
    BY <1>1, FS_Interval
  <2>2. ok \subseteq 1 .. Len(ls)
    BY ONLY <1>1, <1>2
  <2> QED
    BY ONLY <2>1, <2>2, FS_Subset
<1>5. PICK f, g : f = [i \in ok |-> ls[i].volume] /\ g = Volumes(ls)
  OBVIOUS
<1>6. DOMAIN f = ok
  BY ONLY <1>5
<1>7. \A i \in ok : f[i] = g[i]
  BY ONLY <1>4, <1>5 DEF Volumes
<1>8. SumFunctionOnSet(f, ok) = SumFunctionOnSet(g, ok)
  BY ONLY <1>4, <1>7, SumSame
<1>9. SumFunction(f) = SumFunctionOnSet(f, ok)
  BY ONLY <1>6 DEF SumFunction
<1>10. precheck_fok(o) <=> SumFunction(f) >= o.qty
  <2>1. ls = book[Opposite(o.side)]
    OBVIOUS
  <2> QED
    BY ONLY <1>2, <1>5, <2>1 DEF precheck_fok
<1>11. SumFunctionOnSet(Offers(bf), Crossing(bf, o.side, o.price)) = SumFunctionOnSet(g, ok)
  BY ONLY <1>3, <1>5, Measured(ls, 1 .. Len(ls), bf, o.side, o.price) DEF Measured
<1> QED
  BY ONLY <1>8, <1>9, <1>10, <1>11

LEMMA MatchAnswers ==
    ASSUME EngineInv, NEW o \in Takers, match_active_order(o)
    PROVE  Midway' /\ MatchesReference'
<1>1. /\ trades' = <<>> /\ taker' = o /\ book' = book /\ owed' = owed /\ overflow' = overflow
      /\ before' = QueueOf(Opposite(o.side)) /\ phase = "idle" /\ ~overflow
  BY DEF match_active_order, Ready
<1>2. PICK side, ls, bf : side = Opposite(o.side) /\ ls = book[side] /\ bf = QueueOf(side)
  OBVIOUS
<1>3. o \in Order /\ o.rem = o.qty /\ o.side \in Sides /\ o.qty \in Nat /\ o.qty > 0
  <2>1. /\ o \in [side: Sides, type: Types, price: Prices \cup {NoPrice}, qty: Quantities, rem: Quantities]
        /\ o.rem = o.qty
    BY DEF Takers
  <2>2. Prices \cup {NoPrice} \subseteq Nat /\ Quantities \subseteq Nat /\ ~ (0 \in Quantities)
    BY EngineAssumption DEF NoPrice
  <2>3. o.qty \in Nat /\ o.qty \in Quantities /\ o.side \in Sides
    BY <2>1, <2>2
  <2>4. o \in Order
    BY <2>1, <2>2, <2>3 DEF Order
  <2> QED
    BY ONLY <2>1, <2>2, <2>3, <2>4
<1>4. /\ side \in Sides /\ ls \in Seq(Level) /\ ls = book[side] /\ SoundSide(side, ls, owed)
      /\ side = Opposite(o.side) /\ owed \in Seq(Nat)
  <2>1. side \in Sides /\ side = Opposite(o.side)
    BY <1>2, <1>3, OppositeIs
  <2>2. book \in [Sides -> Seq(Level)] /\ owed \in Seq(Nat) /\ SoundBook
    BY <1>1 DEF EngineInv, BookTypes
  <2> QED
    BY ONLY <1>2, <2>1, <2>2 DEF SoundBook
<1>5. Shows(ls, 1 .. Len(ls), bf) /\ InPriority(side, bf) /\ Measured(ls, 1 .. Len(ls), bf, o.side, o.price)
  <2>1. book[side] \in Seq(Level) /\ SoundSide(side, book[side], owed)
    BY ONLY <1>4
  <2>2. Shows(book[side], 1 .. Len(book[side]), QueueOf(side))
    BY ONLY <2>1, QueueShows
  <2>3. InPriority(side, QueueOf(side))
    BY ONLY <1>4, <2>1, QueueInPriority
  <2>4. Measured(book[side], 1 .. Len(book[side]), QueueOf(side), o.side, o.price)
    BY ONLY <1>4, <2>1, QueueMeasured
  <2> QED
    BY ONLY <1>2, <2>2, <2>3, <2>4
<1>6. bf \in Seq(Maker)
  BY ONLY <1>5 DEF Shows, Maker
<1>7. PICK w : w = SumFunctionOnSet(Offers(bf), Crossing(bf, o.side, o.price))
  OBVIOUS
<1>8. precheck_fok(o) <=> w >= o.qty
  <2>1. ls \in Seq(Level) /\ ls = book[Opposite(o.side)]
    BY ONLY <1>2, <1>4
  <2> QED
    BY ONLY <1>5, <1>7, <2>1, PrecheckIs
<1>9. w \in Int
  <2>1. PICK f, C : f = Offers(bf) /\ C = Crossing(bf, o.side, o.price)
    OBVIOUS
  <2>2. IsFiniteSet(C) /\ (\A i \in 1 .. Len(bf) : f[i] \in Int) /\ C \subseteq 1 .. Len(bf)
    BY <1>6, <2>1, OffersAre DEF Crossing
  <2>3. \A i \in C : f[i] \in Int
    BY ONLY <2>2
  <2> QED
    BY ONLY <1>7, <2>1, <2>2, <2>3, SumInt
<1>10. would_cross(o) <=> Crossing(bf, o.side, o.price) # {}
  <2>1. (ls # <<>> /\ Crosses(o.side, o.price, ls[1].price)) <=> Crossing(bf, o.side, o.price) # {}
    <3>1. GuardTells(ls, bf, o)
      BY ONLY <1>3, <1>4, <1>5, CrossIs
    <3> QED
      BY ONLY <3>1 DEF GuardTells
  <2>2. would_cross(o) <=> (ls # <<>> /\ Crosses(o.side, o.price, ls[1].price))
    BY ONLY <1>2 DEF would_cross
  <2> QED
    BY ONLY <2>1, <2>2
<1>11. InPriority(Opposite(o.side), bf)
  BY ONLY <1>2, <1>5
<1>12. before' = bf
  BY ONLY <1>1, <1>2
<1>13. ASSUME NEW oc, Idle(bf, o, oc), o.type = "post_only" => (oc = "ok" <=> Crossing(bf, o.side, o.price) = {}),
              outcome' = oc, phase' = phase
       PROVE  Midway' /\ MatchesReference'
  <2>1. Answers(bf, o, <<>>, oc)
    BY ONLY <1>3, <1>6, <1>11, <1>13, AnswersNothing
  <2>2. Answers(before', taker', trades', outcome')
    BY ONLY <1>1, <1>12, <1>13, <2>1
  <2>3. MatchesReference'
    <3>1. (MatchesReference <=> (phase = "idle" /\ ~overflow => Answers(before, taker, trades, outcome)))'
      BY ReferenceIs, PTL
    <3> QED
      BY ONLY <2>2, <3>1
  <2>4. Midway'
    BY ONLY <1>1, <1>13 DEF Midway
  <2> QED
    BY ONLY <2>3, <2>4
<1>14. CASE o.type = "post_only" /\ outcome' = (IF would_cross(o) THEN "post_only_cross" ELSE "ok") /\ phase' = phase
  <2>1. Idle(bf, o, outcome')
    BY ONLY <1>14 DEF Idle
  <2>2. outcome' = "ok" <=> Crossing(bf, o.side, o.price) = {}
    BY ONLY <1>10, <1>14
  <2> QED
    BY ONLY <1>13, <1>14, <2>1, <2>2
<1>15. CASE o.type = "fok" /\ ~precheck_fok(o) /\ outcome' = "fok_rejected" /\ phase' = phase
  <2>1. w < o.qty
    BY ONLY <1>3, <1>8, <1>9, <1>15
  <2>2. Idle(bf, o, outcome')
    BY ONLY <1>7, <1>15, <2>1 DEF Idle
  <2>3. o.type # "post_only"
    BY ONLY <1>15
  <2> QED
    BY ONLY <1>13, <1>15, <2>2, <2>3
<1>16. CASE o.type # "post_only" /\ (o.type = "fok" => precheck_fok(o)) /\ phase' = "walking"
  <2>1. Terms(bf, o)
    BY ONLY <1>7, <1>8, <1>16 DEF Terms
  <2>2. Fair(side, bf, o, <<>>, ls, owed)
    BY ONLY <1>3, <1>4, <1>5, <2>1, StartFair
  <2>3. Opp' = side
    BY ONLY <1>1, <1>2 DEF Opp
  <2>4. Fair(Opp, before, taker, trades, book[Opp], owed)'
    BY ONLY <1>1, <1>2, <1>12, <2>2, <2>3
  <2>5. Midway'
    BY ONLY <2>4 DEF Midway
  <2>6. MatchesReference'
    <3>1. phase' # "idle"
      BY <1>16
    <3> QED
      BY ONLY <3>1 DEF MatchesReference
  <2> QED
    BY ONLY <2>5, <2>6
<1> QED
  BY <1>14, <1>15, <1>16 DEF match_active_order

\* When the loop ends the taker has all it wanted, or no acceptable maker has
\* anything left: what is left would be in the book, at a price no better than its first.
LEMMA DoneIs ==
    ASSUME NEW side \in Sides, NEW ls \in Seq(Level), NEW quants \in Seq(Nat), SoundSide(side, ls, quants),
           NEW bf \in Seq(Maker), Kept(bf, quants), Resting(bf, ls, quants), NEW tk \in Order, side = Opposite(tk.side),
           ~ (tk.rem > 0 /\ ls # <<>> /\ Crosses(tk.side, tk.price, ls[1].price))
    PROVE  Done(bf, tk, quants)
<1>1. Len(ls) \in Nat /\ tk.side \in Sides /\ tk.price \in Nat /\ tk.rem \in Nat
  BY LenProperties DEF Order
<1>2. SUFFICES ASSUME tk.rem # 0, NEW i \in Crossing(bf, tk.side, tk.price), quants[bf[i].id] # 0
               PROVE  FALSE
  BY DEF Done
<1>3. i \in 1 .. Len(bf) /\ Crosses(tk.side, tk.price, bf[i].price)
  BY DEF Crossing
<1>4. quants[bf[i].id] > 0
  <2>1. quants[bf[i].id] \in Nat
    BY <1>3, KeptIs
  <2> QED
    BY <1>2, <2>1
<1>5. Rests(ls, bf[i].id, bf[i].price)
  BY ONLY <1>3, <1>4, Resting(bf, ls, quants) DEF Resting
<1>6. PICK a \in 1 .. Len(ls) : ls[a].price = bf[i].price /\ \E b \in 1 .. Len(ls[a].queue) : ls[a].queue[b].id = bf[i].id
  BY ONLY <1>5 DEF Rests
<1>7. PICK b \in 1 .. Len(ls[a].queue) : ls[a].queue[b].id = bf[i].id
  BY ONLY <1>6
<1>8. 1 \in 1 .. Len(ls) /\ ls # <<>>
  BY <1>1, <1>6, EmptySeq
<1>9. ~Better(side, ls[a].price, ls[1].price)
  BY <1>8, FirstIsBest
<1>10. ls[a].price \in Nat /\ ls[1].price \in Nat
  BY <1>8, QueueType, ElementOfSeq
<1>11. Crosses(tk.side, tk.price, ls[1].price)
  <2>1. ~Better(Opposite(tk.side), ls[a].price, ls[1].price)
    BY ONLY <1>9, side = Opposite(tk.side)
  <2>2. Crosses(tk.side, tk.price, ls[a].price)
    BY ONLY <1>3, <1>6
  <2> QED
    BY ONLY <1>1, <1>10, <2>1, <2>2, NoWorseCrosses
<1> QED
  BY <1>1, <1>2, <1>8, <1>11

LEMMA FinishAnswers == ASSUME EngineInv, Midway, FinishMatch PROVE Midway' /\ MatchesReference'
<1>1. /\ phase = "walking" /\ ~WantsBest /\ phase' = "idle" /\ taker' = taker /\ trades' = trades /\ before' = before
      /\ outcome' = IF taker.rem > 0 /\ taker.type \in {"market", "ioc"} /\ trades = <<>> THEN "no_liquidity" ELSE "ok"
  BY DEF FinishMatch, ReportOutcome
<1>2. Midway'
  BY <1>1 DEF Midway
<1>3. PICK side, ls, bf, tk, tr, quants : /\ side = Opp /\ ls = book[Opp] /\ bf = before /\ tk = taker /\ tr = trades
                                          /\ quants = owed
  OBVIOUS
<1>4. Fair(side, bf, tk, tr, ls, quants)
  BY ONLY <1>1, <1>3, Midway DEF Midway
<1>5. /\ tk \in Order /\ tk.rem <= tk.qty /\ tr \in Seq(Trade) /\ quants \in Seq(Nat)
  BY <1>3 DEF EngineInv, CallTypes, BookTypes
<1>6. side \in Sides /\ side = Opposite(tk.side)
  <2>1. tk.side \in Sides
    BY ONLY <1>5 DEF Order
  <2>2. side = Opposite(tk.side)
    BY ONLY <1>3 DEF Opp
  <2> QED
    BY ONLY <2>1, <2>2, OppositeIs
<1>7. ls \in Seq(Level) /\ SoundSide(side, ls, quants)
  <2>1. book \in [Sides -> Seq(Level)]
    BY DEF EngineInv, BookTypes
  <2>2. SoundBook
    BY <1>1 DEF EngineInv, CallTypes
  <2> QED
    BY ONLY <1>3, <1>6, <2>1, <2>2 DEF SoundBook
<1>8. /\ bf \in Seq(Maker) /\ InPriority(Opposite(tk.side), bf) /\ Kept(bf, quants)
      /\ Accounted(bf, tr, quants) /\ Accepted(bf, tk, quants) /\ TakenInTurn(bf, quants)
      /\ Received(bf, tk, quants) /\ Terms(bf, tk) /\ Resting(bf, ls, quants)
  BY ONLY <1>4, <1>6 DEF Fair
<1>9. ~ (tk.rem > 0 /\ ls # <<>> /\ Crosses(tk.side, tk.price, ls[1].price))
  BY ONLY <1>1, <1>3 DEF WantsBest
<1>10. Done(bf, tk, quants)
  BY ONLY <1>5, <1>6, <1>7, <1>8, <1>9, DoneIs
<1>11. PICK oc : oc = IF tk.rem > 0 /\ tk.type \in {"market", "ioc"} /\ tr = <<>> THEN "no_liquidity" ELSE "ok"
  OBVIOUS
<1>12. Answers(bf, tk, tr, oc)
  BY ONLY <1>5, <1>8, <1>10, <1>11, AnswersWalk
<1>13. outcome' = oc
  BY ONLY <1>1, <1>3, <1>11
<1>14. Answers(before', taker', trades', outcome')
  BY ONLY <1>1, <1>3, <1>12, <1>13
<1>15. (MatchesReference <=> (phase = "idle" /\ ~overflow => Answers(before, taker, trades, outcome)))'
  BY ReferenceIs, PTL
<1> QED
  BY ONLY <1>2, <1>14, <1>15

LEMMA NothingYet == Answers(<<>>, NoTaker, <<>>, "ok")
<1>1. PICK tk, bf : tk = NoTaker /\ bf = <<>>
  OBVIOUS
<1>2. tk \in Order /\ tk.rem = tk.qty /\ tk.qty = 0 /\ tk.type = "limit"
  BY ONLY <1>1 DEF NoTaker, Order, Sides, Types, NoPrice
<1>3. bf \in Seq(Maker) /\ Len(bf) = 0
  BY ONLY <1>1
<1>4. InPriority(Opposite(tk.side), bf)
  <2>1. ~ \E i \in 1 .. Len(bf) : TRUE
    BY ONLY <1>3
  <2> QED
    BY ONLY <2>1 DEF InPriority
<1>5. Idle(bf, tk, "ok")
  BY ONLY <1>2 DEF Idle
<1>6. tk.type # "post_only"
  BY ONLY <1>2
<1>7. Answers(bf, tk, <<>>, "ok")
  BY ONLY <1>2, <1>3, <1>4, <1>5, <1>6, AnswersNothing
<1> QED
  BY ONLY <1>1, <1>7

LEMMA ForgetAnswers == ASSUME ForgetResult, phase' = "idle" PROVE Midway' /\ MatchesReference'
<1>1. before' = <<>> /\ taker' = NoTaker /\ trades' = <<>> /\ outcome' = "ok"
  BY DEF ForgetResult
<1>2. Answers(before', taker', trades', outcome')
  BY ONLY <1>1, NothingYet
<1>3. (MatchesReference <=> (phase = "idle" /\ ~overflow => Answers(before, taker, trades, outcome)))'
  BY ReferenceIs, PTL
<1>4. Midway'
  BY DEF Midway
<1> QED
  BY ONLY <1>2, <1>3, <1>4

LEMMA StepAnswers == EngineInv /\ Midway /\ MatchesReference /\ [Next]_vars => Midway' /\ MatchesReference'
<1> SUFFICES ASSUME EngineInv, Midway, MatchesReference, [Next]_vars PROVE Midway' /\ MatchesReference'
  OBVIOUS
<1>1. CASE reset
  BY <1>1, ForgetAnswers DEF reset
<1>2. ASSUME NEW side, NEW price, NEW qty, NEW ice, NEW vis, add_passive_order(side, price, qty, ice, vis)
      PROVE  Midway' /\ MatchesReference'
  <2>1. ForgetResult /\ phase' = "idle"
    BY <1>2 DEF add_passive_order, Ready
  <2> QED
    BY ONLY <2>1, ForgetAnswers
<1>3. ASSUME NEW id, NEW side, NEW price, cancel_order(id, side, price)
      PROVE  Midway' /\ MatchesReference'
  <2>1. ForgetResult /\ phase' = "idle"
    BY <1>3 DEF cancel_order, Ready
  <2> QED
    BY ONLY <2>1, ForgetAnswers
<1>4. ASSUME NEW o \in Takers, match_active_order(o)
      PROVE  Midway' /\ MatchesReference'
  BY <1>4, MatchAnswers
<1>5. CASE FillMaker
  <2>1. Midway'
    BY <1>5, FillFair
  <2>2. phase' # "idle"
    BY <1>5 DEF FillMaker
  <2>3. MatchesReference'
    BY ONLY <2>2 DEF MatchesReference
  <2> QED
    BY ONLY <2>1, <2>3
<1>6. CASE TradesOverflow
  <2>1. overflow' = TRUE /\ phase' = "idle"
    BY <1>6 DEF TradesOverflow
  <2> QED
    BY ONLY <2>1 DEF MatchesReference, Midway
<1>7. CASE FinishMatch
  BY <1>7, FinishAnswers
<1>8. CASE UNCHANGED vars
  <2>1. /\ book' = book /\ owed' = owed /\ taker' = taker /\ phase' = phase /\ trades' = trades
        /\ outcome' = outcome /\ before' = before /\ overflow' = overflow
    BY <1>8 DEF vars
  <2>2. Opp' = Opp
    BY ONLY <2>1 DEF Opp
  <2>3. Midway'
    BY ONLY <2>1, <2>2, Midway DEF Midway
  <2>4. phase = "idle" /\ ~overflow => Answers(before, taker, trades, outcome)
    BY ReferenceIs
  <2>5. phase' = "idle" /\ ~overflow' => Answers(before', taker', trades', outcome')
    BY ONLY <2>1, <2>4
  <2>6. (MatchesReference <=> (phase = "idle" /\ ~overflow => Answers(before, taker, trades, outcome)))'
    BY ReferenceIs, PTL
  <2> QED
    BY ONLY <2>3, <2>5, <2>6
<1> QED
  BY <1>1, <1>2, <1>3, <1>4, <1>5, <1>6, <1>7, <1>8 DEF Next

\* Whatever the book and the order, the matching loop computes the closed form of
\* price-time matching: every maker gives exactly its share in turn, the taker gets
\* all it wanted or all that is acceptable, FOK trades everything or nothing,
\* Post-Only nothing, and the outcome reported is the true one.
THEOREM LoopIsClosedForm == Spec => []MatchesReference
<1>1. Init => Midway /\ MatchesReference
  <2> SUFFICES ASSUME Init PROVE Midway /\ MatchesReference
    OBVIOUS
  <2>1. before = <<>> /\ taker = NoTaker /\ trades = <<>> /\ outcome = "ok" /\ phase = "idle"
    BY DEF Init
  <2>2. Answers(before, taker, trades, outcome)
    BY ONLY <2>1, NothingYet
  <2>3. Midway
    BY ONLY <2>1 DEF Midway
  <2> QED
    BY <2>2, <2>3, ReferenceIs
<1> QED
  BY <1>1, EngineInvariant, StepAnswers, PTL DEF Spec

=============================================================================
