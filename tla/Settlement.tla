---------------------------- MODULE Settlement ----------------------------
(***************************************************************************)
(* What the exchange promises, without queues, locks, books or retries:    *)
(* orders are entered once and keep their terms; from time to time a taker *)
(* trades with one or more makers, in one step that moves what the trades  *)
(* say between the parties, adds to what the orders have filled, and does  *)
(* nothing else.  Exchange implements it.                                  *)
(***************************************************************************)
EXTENDS PriceTime

CONSTANTS Ids, Rows, Start, Nobody

VARIABLES
    terms,      \* [user, side, price] of an order, Nobody before it is entered
    filled,     \* how much of it has traded
    total,      \* what a user holds of an asset, locked or not
    trades      \* [taker, maker, price, qty], in the order they were made

Receives(id, asset) == asset = IF terms[id].side = "buy" THEN "base" ELSE "quote"

\* What a trade brings an account of one of its orders.
Moves(t, id, row) ==
    IF terms[id].user # row[1] THEN 0
    ELSE LET amount == IF row[2] = "base" THEN t.qty ELSE t.price * t.qty
         IN  IF Receives(id, row[2]) THEN amount ELSE -amount

\* A trade of two entered orders at the maker's price, which the taker takes.
Honest(t) ==
    /\ terms[t.taker] # Nobody /\ terms[t.maker] # Nobody
    /\ terms[t.taker].side = Opposite(terms[t.maker].side)
    /\ t.price = terms[t.maker].price /\ t.qty > 0
    /\ Crosses(terms[t.taker].side, terms[t.taker].price, t.price)

Begin ==
    /\ terms = [id \in Ids |-> Nobody]
    /\ filled = [id \in Ids |-> 0]
    /\ total = Start
    /\ trades = <<>>

Enter ==
    /\ \E id \in Ids : /\ terms[id] = Nobody
                       /\ \A other \in Ids \ {id} : terms'[other] = terms[other]
    /\ UNCHANGED <<filled, total, trades>>

Settle ==
    LET batch == SubSeq(trades', Len(trades) + 1, Len(trades'))
    IN  /\ Len(trades') > Len(trades) /\ SubSeq(trades', 1, Len(trades)) = trades
        /\ \A i, j \in DOMAIN batch : /\ batch[i].taker = batch[j].taker
                                      /\ i # j => batch[i].maker # batch[j].maker
                                      /\ Honest(batch[i])
        /\ filled' = [id \in Ids |-> filled[id] + SumFunction([i \in DOMAIN batch |->
                         IF id \in {batch[i].taker, batch[i].maker} THEN batch[i].qty ELSE 0])]
        /\ total' = [row \in Rows |-> total[row] + SumFunction([i \in DOMAIN batch |->
                        Moves(batch[i], batch[i].taker, row) + Moves(batch[i], batch[i].maker, row)])]
        /\ UNCHANGED terms

Spec == Begin /\ [][Enter \/ Settle]_<<terms, filled, total, trades>>

=============================================================================
