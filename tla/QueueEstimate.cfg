SPECIFICATION Spec
CONSTANTS
    Prices = {1}
    Price = 1
    Oids = {1, 2}
    Volumes = {1, 2}
    MaxEntries = 4
    MaxTrades = 3
    MaxWithdrawn = 2
INVARIANTS
    EstimateExact
    LateByWithdrawn
    OwnTimePriority
PROPERTIES
    TradeNotOverspent
CHECK_DEADLOCK FALSE
