SPECIFICATION Spec
CONSTANTS
    A = A
    B = B
    C = C
    Users = {A, B}
    Clients = {c1, c2}
    NoOne = NoOne
    Worker = Worker
    Start <- StartAB
    Menu <- MenuMixed
    Pair <- MCPair
    MaxOrders = 2
    MaxQueue = 1
    Replacements <- ReplaceOne
    MayCancel = TRUE
    Editions = {"current"}
    Faults = TRUE
SYMMETRY Symmetry
INVARIANT TypeOK
INVARIANT HoldingsMatchTrades
INVARIANT TradesHonourLimits
CHECK_DEADLOCK FALSE
