SPECIFICATION FairSpec
CONSTANT MaxStarts = 3
INVARIANTS
    TypeOK
    QuietWhenStopped
PROPERTIES
    StartIsSeenFresh
    StopReturns
    StartReturnsOrMissed
CHECK_DEADLOCK FALSE
