CONSTANTS
    Friends = {f1}
    Sources = {s1}
    Sticky = s1
    Channels = {c1}
    MaxToasts = 1
    MaxVoice = 1
    RefreshEvery = 2
    MaxPushes = 1
    MaxResets = 0
SPECIFICATION Spec
CHECK_DEADLOCK FALSE
INVARIANT
    BaselineAlways
