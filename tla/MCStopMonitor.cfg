CONSTANTS
    Clients = {c1}
    NoOne = NoOne
    Batches <- MCBatches
    MaxOrders = 2
    Funds = 2
    Prices = {1, 3}
    MaxPrints = 2
    MaxTrouble = 2
    Emulator = TRUE
    OtherPairs = TRUE
    MaxFaults = 1
SPECIFICATION Spec
INVARIANTS
    
    
    NoStopForgotten
    
PROPERTIES
    TrailingRatchet
CHECK_DEADLOCK FALSE
