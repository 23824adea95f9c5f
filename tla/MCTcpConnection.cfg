SPECIFICATION FairSpec
CONSTANTS
    SynRetries = 2
    DataRetries = 1
    Scripts <- MCScripts
    MaxFaults = 1
INVARIANTS TimerPending QuietWhenClosed EndsAgree CloseAgreed PeerClosesOnce
PROPERTY HandshakeEnds
CHECK_DEADLOCK FALSE
