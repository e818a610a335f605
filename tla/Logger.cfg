SPECIFICATION FairSpec
CONSTANTS
    Thread = {t1, t2, t3}
    Nobody = Nobody
    MaxActive = 2
    MaxLogs = 1
INVARIANTS
    TypeOK
    LoggerActiveTells
    JoinIsShort
PROPERTIES
    CallsReturn
    LoggersEnd
CHECK_DEADLOCK FALSE
