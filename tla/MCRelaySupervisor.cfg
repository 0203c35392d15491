CONSTANTS
    Commands = {u1, u2}
    Watchdog = w
    MaxGen = 3
    MaxFaults = 1
    None = None
SPECIFICATION FairSpec
CHECK_DEADLOCK FALSE
INVARIANTS
    TypeOK
    ControlAgrees
    NoOrphan
PROPERTIES
    UnwantedEnds
    WantedRuns
