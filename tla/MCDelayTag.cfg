SPECIFICATION Spec
CONSTANTS
    p1 = p1
    p2 = p2
    None = None
    Packets <- MCPackets
    MaxPath = 3
    MaxTime = 5
    Garbage <- MCGarbage
SYMMETRY MCSymmetry
INVARIANTS MaxDelayIsLargest
CHECK_DEADLOCK FALSE
