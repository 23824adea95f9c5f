SPECIFICATION FairSpec
CONSTANTS
    SegmentSize = 4
    AI = 2
    MaxMdf = 100
    BaseTarget = 300
    RetrxResetThreshold = 3
    DupAckThresh = 3
    MaxBuffer = 5
    N = 5
    InitialCwnd = 4
    SsThreshInf = 100
    RetxThresh = 3
    DataRetries = 3
    DelAckCount = 2
    Rtts <- MCRtts
    MaxRtt = 40000
    HopCount = 2
    Paths <- MCLivePaths
PROPERTIES Delivers ImplementsSwiftFlow
CHECK_DEADLOCK FALSE
