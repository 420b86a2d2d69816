SPECIFICATION SplitsSpec
CONSTANTS
    MaxSamples = 6
    Windows = {0, 1, 2, 3, 7}
INVARIANTS
    PurgedExactly
