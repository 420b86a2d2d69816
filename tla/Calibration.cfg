SPECIFICATION Spec
CONSTANTS
    Tops <- SmallTops
    Gaps = {0, 1, 3}
    Window = 2
    BucketVolume = 3
    MaxBuckets = 2
    Volumes = {0, 1, 2, 7}
    MaxUpdates = 4
    MaxTime = 5
    Stamps = {1, 2, 4}
    CapturedTops <- TwoTops
    TradePrices = {5, 7}
    MinBooks = 2
    MinObs = 3
    MinPairs = 2
    Horizon = 1
    MaxReads = 4
INVARIANTS
    WindowIsExact
    OneBucketPerVolume
    EstimatorsAccept
    DepthsUseKnownMids
    CalibrationNeverBreaks
CHECK_DEADLOCK FALSE
