SPECIFICATION FairSpec
CONSTANTS
    Packets = 10
    SizeOf <- MCSizeOf
    Ect = {1, 3, 5, 7, 8, 9}
    MinTh = 2
    MaxTh = 2
    DiscMax = 5
    DevMax = 4
    Quota = 2
    MinLimit = 0
    MaxLimit = 8
    Limits = {TRUE, FALSE}
INVARIANTS LinkTypeOK DeviceNeverDrops
PROPERTIES EctLostOnlyWhenFull ImplementsLossyFifo Drains
CHECK_DEADLOCK FALSE
