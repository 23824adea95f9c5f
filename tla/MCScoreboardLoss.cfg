SPECIFICATION ScoreboardSpec
CONSTANTS
    DupAckThresh = 2
    MaxBuffer = 6
    MaxSeq = 7
INVARIANT LossDetected
