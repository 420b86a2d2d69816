SPECIFICATION FairSpec
CONSTANTS
    InitialBackoff = 1
    MaxBackoff = 3
    ClientTimeout = 2
    HeartbeatPoll = 2
    MaxFailures = 4
    WatchInterval = 2
    SilenceLimit = 2
INVARIANTS
    BackoffMatchesFailures
    NothingAfterClose
PROPERTIES
    WatchdogSparesTheLiving
    AlwaysReconnects
    StopIsAnswered
    SignalEnds
