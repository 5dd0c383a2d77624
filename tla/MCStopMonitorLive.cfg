CONSTANTS
    Clients = {c1}
    NoOne = NoOne
    Batches <- FewBatches
    MaxOrders = 1
    Funds = 1
    Prices = {1, 3}
    MaxPrints = 2
    MaxTrouble = 3
    Emulator = FALSE
    OtherPairs = TRUE
    MaxFaults = 1
SPECIFICATION FairSpec
PROPERTIES
    
    NewPairMonitored
CHECK_DEADLOCK FALSE
