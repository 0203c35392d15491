CONSTANTS
    MaxGame = 2
    Needed = {2}
    MaxWrites = 1
    MaxFaults = 0
    MaxTasks = 1
    BatchCap = 1
    None = None
SPECIFICATION Spec
INVARIANT
    SentAsItsGame
