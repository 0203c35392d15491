CONSTANTS
    Conns = {c1, c2}
    Capacity = 2
    BatchCap = 1
    ResyncCap = 1
    ReplayLimit = 2
    MaxStreams = 2
    MaxSeq = 3
    MaxQueue = 3
    MaxFaults = 1
    None = None
SPECIFICATION Spec
SYMMETRY Symmetry
CHECK_DEADLOCK FALSE
INVARIANTS
    TypeOK
    Faithful
    DeliveredInOrder
PROPERTIES
    NothingForgotten
