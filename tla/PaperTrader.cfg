SPECIFICATION Spec
CONSTANTS
    Prices = {3, 4}
    Dollar = 8
    TickValue = 100
    FeeRate = 2
    RebateRate = 1
    DrawdownNum = 1
    DrawdownDen = 2
    MaxInventory = 1
    HeartbeatTimeout = 1
    DailyLossLimit = 150
    BaselineCapital = 400
    DaySeconds = 2
    InitialBook <- EmptyBook
    MarketMoves <- Moves
    OrderKinds <- Orders
    Stamps = {1, 2}
    Latencies = {0, 1}
    WatchInterval = 1
    MaxEvents = 3
    MaxOrders = 2
    MaxCancels = 1
    MaxWall = 4
INVARIANTS
    HaltIsFinal
    TracksItsOrders
    LatencyHonoured
    RiskCheckedFirst
    SilenceNoticed
PROPERTIES
    ImplementsLifecycle
