CONSTANTS
    Events = {e1}
    GuildEvents = {e1}
    Conns = {c1, c2}
    Capacity = 1
    MaxQueue = 2
    MaxFaults = 1
    None = None
SPECIFICATION FairSpec
CHECK_DEADLOCK FALSE
PROPERTIES
    Drained
