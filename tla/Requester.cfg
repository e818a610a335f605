SPECIFICATION FairSpec
CONSTANTS
    Browsers = 5
    Count = 2
    Verdicts = {"granted", "banned"}
    Faults = {"lost", "untagged"}
    NaN = NaN
    None = None
INVARIANTS
    TypeOK
    UncalledIsKnown
    AnswerIsAuthorized
PROPERTY
    CalledBack
CHECK_DEADLOCK FALSE
