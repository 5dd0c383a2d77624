SPECIFICATION FairSpec
CONSTANTS
    A = A
    B = B
    C = C
    Users = {A, B}
    Clients = {c1, c2}
    NoOne = NoOne
    Worker = Worker
    Start <- StartAB
    Menu <- MenuPair
    Pair <- MCPair
    MaxOrders = 2
    MaxQueue = 1
    Replacements <- ReplaceOne
    MayCancel = TRUE
    Editions = {"current"}
    Faults = FALSE
PROPERTY EventuallyQuiet
PROPERTY RequestsEnd
CHECK_DEADLOCK FALSE
