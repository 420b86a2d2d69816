SPECIFICATION MarketSpec
CONSTANTS
    Prices <- SevenTicks
    Ticks = 7
    MidStart = 7
    MidSteps <- SmallSteps
    FlowSteps <- SmallFlow
    DriftStrength = 1
    Jumps <- ThreeJumps
    Interval = 2
    Duration = 5
    DepthBudgets = {0, 3, 5}
    BaseSize = 2
    FlowAmp = 1
    MaxTrades = 2
    MaxOrders = 1
INVARIANTS
    ReachDecidesFill
    LagBounded
PROPERTY
    TradesMeetTheBook
