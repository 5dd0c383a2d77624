CONSTANTS
    Ids <- MCIds
    Menu <- MCMenu
    Readers = {r1}
    Cancelers = {c1}
    Cancelable = {2}
    NoHash = NoHash
    Tick = 10
    Multiplier = 2
    Exact = 24
    MaxPrice = 170
    Depth = 2
SPECIFICATION Spec
INVARIANTS
    
    PriceWithinHalfTick
    SnapshotTrue
    MembersHaveHash
    CanceledStaysOut
