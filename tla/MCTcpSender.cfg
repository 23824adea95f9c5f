SPECIFICATION Spec
CONSTANTS
    SegmentSize = 4
    AI = 2
    MaxMdf = 100
    BaseTarget = 300
    RetrxResetThreshold = 3
    DupAckThresh = 2
    MaxBuffer = 8
    N = 8
    InitialCwnd = 5
    SsThreshInf = 100
    RetxThresh = 2
    DataRetries = 1
    DelAckCount = 2
    Rtts <- MCRtts
    MaxRtt = 40000
    HopCount = 2
    Paths <- MCSenderPaths
INVARIANTS NoAssertionFails RecoveryPoint RestsClean PrrOvershootBounded TimerArmed SenderBehindReceiver
PROPERTIES NoDoubleRetransmission CutOncePerWindow
CHECK_DEADLOCK FALSE
