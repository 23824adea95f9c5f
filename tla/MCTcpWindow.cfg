SPECIFICATION FairSpec
CONSTANTS
    SegmentSize = 2
    Bytes = 11
    MaxBuffer = 5
    CWnds = {2, 4, 6}
    Reads = {1, 3, 5}
    DelAckCount = 2
    DataRetries = 2
    MaxLosses = 2
INVARIANTS NothingTrimmed PersistOnlyIdle StallsOnlyOnSillyWindow
PROPERTY TransferEnds
CHECK_DEADLOCK FALSE
