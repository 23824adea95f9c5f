SPECIFICATION Spec
CONSTANTS
    SegmentSize = 4
    AI = 2
    MaxMdf = 100
    BaseTarget = 300
    RetrxResetThreshold = 3
    InitialCwnd = 3
    MaxSegsAcked = 2
    RecoveryWindows <- MCRecoveryWindows
    MaxRecoveryWindow = 22
    Rtts <- MCRtts
    MaxRtt = 40000
    Ticks <- MCTicks
    Hops <- MCHops
    SsThreshInf = 100
    MaxTimeouts = 4
INVARIANTS TypeOK GrowthCeiling
