CONSTANTS
    MaxGame = 2
    Needed = {1}
    MaxWrites = 2
    MaxFaults = 1
    MaxTasks = 2
    BatchCap = 1
    None = None
SPECIFICATION Spec
CONSTRAINT Explored
INVARIANTS
    TypeOK
    DoneMeansReported
    DownloadsAreWanted
    QuestionsAreAnswered
PROPERTIES
    PlayersFilesStay
    DeletedIsStored
