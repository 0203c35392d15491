CONSTANTS
    Accounts = {a1, a2}
    Main = a1
    None = None
    MaxSids = 2
    MaxTokens = 2
    MaxFaults = 2
    MaxEvents = 2
    MaxCrashes = 2
    MaxFailures = 1
    Interval = 5
    Timeout = 2
    Stale = 36
    MaxHold = 3
    MaxTicks = 45
    Envelopes <- SignedEnvelopes
    Skew = 1
    MaxNonces = 1
    MaxRequests = 2
    MaxTime = 3
    MaxDrops = 1
    Room = 1
    MaxWire = 2
    MaxChanges = 3
    MaxLost = 1
SPECIFICATION Spec
CONSTRAINT Explored
CHECK_DEADLOCK FALSE
INVARIANTS
    SessionSafe
    JournalSafe
    HeartbeatSafe
    CommandsSafe
    ClientSafe
