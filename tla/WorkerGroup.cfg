SPECIFICATION FairSpec
CONSTANTS
    MaxId = 3
    Initial = 2
    Batch = 2
    MaxPool = 3
    KillFloor = 2
    LiveDefault = 1
    Loads = {"low", "fine", "high"}
INVARIANTS
    TypeOK
    DeadIsRegistered
    NoOrphanThread
    StopIsComplete
    FreedIsAnnounced
PROPERTY
    GroupMakesProgress
CHECK_DEADLOCK FALSE
