CONSTANTS
    Friends = {f1}
    Sources = {s1, rec}
    Sticky = rec
    Channels = {c1, c2}
    MaxToasts = 1
    MaxVoice = 2
    RefreshEvery = 2
    MaxPushes = 2
    MaxResets = 1
    Releases = {1, 2}
    MaxFails = 1
    MaxExits = 1
    None = None
    StartupAttempts = 2
    ConnectAttempts = 1
    MaxQuits = 1
    MaxSlow = 1
    Users = {u1, u2}
    RiotIds = {r1}
    MaxAsks = 2
    MaxAnswers = 1
    MaxLost = 1
    Enforce = Enforce
    Widget = Widget
    Retries = 2
    MaxToggles = 2
    MaxProbes = 1
    MaxUser = 2
    Snapshots <- MCSnapshots
SPECIFICATION Spec
CONSTRAINT Explored
CHECK_DEADLOCK FALSE
INVARIANTS
    GameBarSafe
    OverlaySafe
    PresenceSafe
