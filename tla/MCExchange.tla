----------------------------- MODULE MCExchange -----------------------------
(* Instances of Exchange for TLC: who may place which orders, and what     *)
(* everybody starts with.  A lot costs 1000 to 3000 units of quote.        *)
EXTENDS Exchange, TLC

CONSTANTS A, B, C       \* users

Entry(user, side, type, price, qty) ==
    [user |-> user, side |-> side, type |-> type, price |-> price, qty |-> qty]

Funds(users, base, quote) ==
    [r \in users \X {"base", "quote"} |-> IF r[2] = "base" THEN base ELSE quote]

\* One or two lots an order; every price of the menus is a multiple of the tick.
MCPair == [min_lot_size |-> 1, max_lot_size |-> 2, tick_size |-> 1000]

StartAB == Funds({A, B}, 3, 6000)

\* Every kind of order, at prices that cross and prices that do not, and one
\* above the pair's largest lot.
MenuMixed ==
    {Entry(A, "buy", "limit", 2000, 2), Entry(A, "buy", "market", NoPrice, 1),
     Entry(A, "buy", "fok", 1000, 1), Entry(A, "buy", "ioc", 1000, 2), Entry(B, "sell", "post_only", 2000, 1),
     Entry(B, "sell", "limit", 1000, 1), Entry(B, "sell", "limit", 3000, 2),
     Entry(B, "sell", "limit", 1000, 3)}

\* One lot, one price, and money for one buy order per user at a time; A has no
\* base row, B two lots to sell.
StartLots == <<A, "quote">> :> 1000 @@ <<C, "base">> :> 0 @@ <<C, "quote">> :> 1000
             @@ <<B, "base">> :> 2 @@ <<B, "quote">> :> 0

MenuLots ==
    {Entry(A, "buy", "limit", 1000, 1), Entry(C, "buy", "limit", 1000, 1),
     Entry(B, "sell", "limit", 1000, 1)}

\* One buyer, one seller.
MenuPair == {Entry(A, "buy", "limit", 1000, 1), Entry(B, "sell", "limit", 1000, 1)}

\* Partial fills of every kind of buyer, and price improvement.
MenuCrossing ==
    {Entry(A, "buy", "limit", 2000, 2), Entry(A, "buy", "market", NoPrice, 2),
     Entry(B, "sell", "limit", 1000, 1)}

ReplaceOne == {[price |-> 1000, qty |-> 1]}
ReplaceNone == {}

Symmetry == Permutations(Clients)
=============================================================================
