SPECIFICATION ScoreboardSpec
CONSTANTS
    DupAckThresh = 3
    MaxBuffer = 6
    MaxSeq = 7
INVARIANTS CountsConsistent PipeNeverWraps SackPointerSound TimeoutFindsHead
