CONSTANTS
    Clients = {c1}
    NoOne = NoOne
    Batches <- FewBatches
    MaxOrders = 1
    Funds = 1
    Prices = {1, 3}
    MaxPrints = 1
    MaxTrouble = 1
    Emulator = FALSE
    OtherPairs = FALSE
    MaxFaults = 0
SPECIFICATION Spec
INVARIANT FiresInDirection
CHECK_DEADLOCK FALSE
