------------------------------ MODULE PriceTime ------------------------------
(***************************************************************************)
(* Price-time priority, stated without a loop: what a taker takes from a   *)
(* queue of makers that is already in priority order.  It is the reference *)
(* MatchingEngine is checked against, and what the matching worker is      *)
(* given in Exchange.  A maker is [id, price, qty].                        *)
(***************************************************************************)
EXTENDS Integers, Sequences, SequencesExt

\* The price of a market order (NaN in the engine): any price is acceptable.
NoPrice == 0

Opposite(side) == IF side = "buy" THEN "sell" ELSE "buy"

\* Is `price` acceptable to a taker with this limit?
Crosses(side, limit, price) ==
    \/ limit = NoPrice
    \/ side = "buy"  /\ price <= limit
    \/ side = "sell" /\ price >= limit

\* Is a better than b for the taker who trades against `side`?
Better(side, a, b) == IF side = "sell" THEN a < b ELSE a > b

Volume(makers) == SumFunction([i \in DOMAIN makers |-> makers[i].qty])

\* What each maker of the queue gives to a taker who wants `want`.
Fills(makers, want) ==
    [i \in DOMAIN makers |->
        Max({0, Min({makers[i].qty, want - Volume(SubSeq(makers, 1, i - 1))})})]

\* The elements of s up to the first whose place is not in `good`.
Leading(s, good) ==
    SubSeq(s, 1, CHOOSE n \in 0 .. Len(s) : 1 .. n \subseteq good /\ n + 1 \notin good)

\* The makers a taker may trade with: the loop ends at the first price that is
\* not acceptable, and prices only get worse along the queue.
Reachable(makers, side, limit) ==
    Leading(makers, {i \in DOMAIN makers : Crosses(side, limit, makers[i].price)})

=============================================================================
