SPECIFICATION FairSpec
CONSTANTS
    Browsers = 3
    Count = 2
    Verdicts = {"granted"}
    Faults = {}
    NaN = NaN
    None = None
PROPERTY
    HelloIsSeen
CHECK_DEADLOCK FALSE
