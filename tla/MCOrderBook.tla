---------------------------- MODULE MCOrderBook ----------------------------
(* Three orders in every mix of: an iceberg ask, an ask one level up, a bid *)
(* whose price is rounded, a bid whose score is no exact double, an ask     *)
(* whose price encode_score refuses.  The third order's sequence number has *)
(* rolled over.                                                             *)
EXTENDS OrderBook

MCIds == 1 .. 3
MCMenu ==
    { [side |-> "sell", price |-> 104, qty |-> 2, visible |-> 1],
      [side |-> "sell", price |-> 112, qty |-> 1, visible |-> 1],
      [side |-> "buy",  price |-> 96,  qty |-> 1, visible |-> 1],
      [side |-> "buy",  price |-> 165, qty |-> 1, visible |-> 1],
      [side |-> "sell", price |-> 200, qty |-> 1, visible |-> 1] }
=============================================================================
