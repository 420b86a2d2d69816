SPECIFICATION SwitchSpec
CONSTANTS
    DrawdownNum = 1
    DrawdownDen = 2
    MaxInventory = 2
    HeartbeatTimeout = 1
    DailyLossLimit = 2
    BaselineCapital = 4
    DaySeconds = 2
    PnLs <- MCPnLs
    MaxClock = 3
    MaxTicks = 4
INVARIANTS
    TypeOK
    EveryBreachHalts
    HaltsOnlyForBreach
