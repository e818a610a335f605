SPECIFICATION Spec
CONSTANTS
    Thread = {t1, t2}
    Cerr = Cerr
    Server = {server}
    File = {file}
    Level = {8, 32, 64, 256}
    Null = 0
    Warn = 64
    Error = 256
    MaxPipe = 2
    MaxCalls = 4
INVARIANTS
    TypeOK
    LevelsSettle
    OutputsHaveLimits
CHECK_DEADLOCK FALSE
