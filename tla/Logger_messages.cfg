SPECIFICATION Spec
CONSTANTS
    Thread = {t1, t2}
    Nobody = Nobody
    MaxActive = 2
    MaxLogs = 1
PROPERTY
    MessagesShowUp
CHECK_DEADLOCK FALSE
