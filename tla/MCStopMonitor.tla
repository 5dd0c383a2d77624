--------------------------- MODULE MCStopMonitor ---------------------------
(* A bulk request of a sell stop and a trailing sell, a limit buy that brings *)
(* a stop-loss child; single stops for the smaller runs.                      *)
EXTENDS StopMonitor

Order(type, side, stop, delta, sl) ==
    [type |-> type, side |-> side, stop |-> stop, delta |-> delta, sl |-> sl]

SellStop == Order("stop_market", "sell", 2, 0, FALSE)
BuyStop  == Order("stop_limit", "buy", 3, 0, FALSE)
Trail    == Order("trailing_stop", "sell", 1, 1, FALSE)
WithLoss == Order("limit", "buy", 2, 0, TRUE)

MCBatches == {<<SellStop, Trail>>, <<WithLoss>>}
FewBatches == {<<SellStop>>, <<BuyStop>>}
=============================================================================
