SPECIFICATION FairSpec
CONSTANTS
    Request = {r1}
    Worker = {w1, w2}
    LiveDefault = 2
    Phantom = Phantom
    NoRequest = NoRequest
PROPERTIES
    RequestServed
    GoneWorkerForgotten
CHECK_DEADLOCK FALSE
