SPECIFICATION Spec
CONSTANTS
    Prices = {3, 4}
    Dollar = 8
    TickValue = 10
    FeeRate = 2
    RebateRate = 1
    InitialBook <- CrossBook
    MarketMoves <- CrossMoves
    OrderKinds <- CrossOrders
    Gaps = {0, 1}
    Latencies = {0, 2}
    MaxEvents = 3
    MaxOrders = 2
    MaxCancels = 1
INVARIANTS
    NoLookAhead
    CancelIsFinal
    SizeConserved
    AccountMatchesFills
PROPERTIES
    ClockMonotone
    ImplementsLifecycle
