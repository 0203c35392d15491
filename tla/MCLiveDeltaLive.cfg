CONSTANTS
    Conns = {c1, c2}
    Capacity = 2
    BatchCap = 1
    ResyncCap = 1
    ReplayLimit = 2
    MaxStreams = 3
    MaxSeq = 2
    MaxQueue = 2
    MaxFaults = 1
    None = None
SPECIFICATION FairSpec
CHECK_DEADLOCK FALSE
PROPERTIES
    Converges
