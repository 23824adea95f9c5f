SPECIFICATION Spec
CONSTANTS
    SegmentSize = 4
    AI = 2
    MaxMdf = 100
    BaseTarget = 300
    RetrxResetThreshold = 3
    DupAckThresh = 2
    MaxBuffer = 7
    N = 7
    InitialCwnd = 4
    SsThreshInf = 100
    RetxThresh = 2
    DataRetries = 1
    DelAckCount = 2
    Rtts <- MCRtts
    MaxRtt = 40000
    HopCount = 2
    Paths <- MCEcnPaths
INVARIANT FirstDupackInOpen
CHECK_DEADLOCK FALSE
