CONSTANTS
    Games = {1, 2}
    Clicks = {"click"}
    Targets <- MCTargets
    Shipped <- MCShipped
    MaxSessions = 2
    MaxKept = 2
    MaxClip = 2
    MaxSegments = 6
    MaxCaptures = 2
    Streams = {1, 2}
    MaxRenewals = 3
    MaxPings = 1
    MaxChanges = 1
    MaxFaults = 1
    None = None
    MaxAsks = 3
    MaxDrags = 2
    MaxCommands = 2
    MaxFails = 1
    MaxRequests = 5
SPECIFICATION Spec
CONSTRAINT Explored
CHECK_DEADLOCK FALSE
INVARIANTS
    RecorderSafe
    ClipsSafe
    BroadcastSafe
    UpdatesSafe
    WindowSafe
PROPERTIES
    StepsSafe
