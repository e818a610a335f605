SPECIFICATION FairSpec
CONSTANTS
    Holder = {"main", "dispatcher"}
    Pointer = {p1, p2}
    MaxCount = 3
    Null = Null
    MaxStarts = 3
    MaxBuilds = 4
INVARIANTS
    ProcessTypeOK
    OneDispatcherServes
    KeeperTells
PROPERTY
    ExitReturns
CHECK_DEADLOCK FALSE
