SPECIFICATION TapeSpec
CONSTANTS
    Assets = {1, 2}
    Stamps = {1, 2}
    Sent = {"market", "invalid"}
    DayLength = 1
    MaxClock = 1
    MaxWrites = 3
    MaxTears = 2
INVARIANTS
    LossBoundedAndReported
    VerifiedMeansOrdered
    MergeComplete
CHECK_DEADLOCK FALSE
