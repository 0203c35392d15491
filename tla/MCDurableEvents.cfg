CONSTANTS
    Events = {e1, e2}
    GuildEvents = {e1}
    Conns = {c1, c2}
    Capacity = 1
    MaxQueue = 2
    MaxFaults = 2
    None = None
SPECIFICATION Spec
SYMMETRY Symmetry
CONSTRAINT InFlight
CHECK_DEADLOCK FALSE
INVARIANTS
    TypeOK
    StoredBeforeAck
    EntriesMatchWaiters
PROPERTIES
    ImplementsAtLeastOnce
