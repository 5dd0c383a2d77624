SPECIFICATION Spec
CONSTANTS
    A = A
    B = B
    C = C
    Users = {A, B}
    Clients = {c1}
    NoOne = NoOne
    Worker = Worker
    Start <- StartAB
    Menu <- MenuCrossing
    Pair <- MCPair
    MaxOrders = 3
    MaxQueue = 1
    Replacements <- ReplaceOne
    MayCancel = TRUE
    Editions = {"current", "older"}
    Faults = TRUE
PROPERTY ImplementsSettlement
CHECK_DEADLOCK FALSE
