SPECIFICATION Spec
CONSTANTS
    Prices = {1, 2, 3}
    Quantities = {1, 3}
    MaxOrders = 3
    PoolCap = 3
    TradesCap = 2
INVARIANT BookWellFormed
INVARIANT MatchesReference
PROPERTY PriceTimePriority
PROPERTY MatchTerminates
CHECK_DEADLOCK FALSE
