SPECIFICATION QSpec
CONSTANTS
    Prices = {1, 2, 3, 4, 5, 6, 7, 8}
    Dollar = 8
    TickValue = 10
    FeeRate = 2
    RebateRate = 1
    InitialBook <- Book
    MarketMoves <- Moves
    OrderKinds <- NoOrderKinds
    Gaps = {0, 2}
    Latencies = {0, 1, 2}
    LatencyModels = {{1}, {0, 2}}
    MaxEvents = 3
    MaxOrders = 6
    MaxCancels = 6
    Pricings = {"constant", "as", "signals", "glt"}
    QuoteSize = 1
    BaseSpread = 2
    RiskRate = 1
    Horizon = 2
    Alphas = {2}
    JumpTimes <- TwoJumps
    DarkBefore = 1
    DarkAfter = 1
INVARIANTS
    NoOrphans
    OneQuotePerSide
    DarkNearJumps
