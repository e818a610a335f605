SPECIFICATION Spec
CONSTANTS
    Request = {r1, r2}
    Worker = {w1, w2}
    LiveDefault = 2
    Phantom = Phantom
    NoRequest = NoRequest
INVARIANT
    OnlyRequestsAreDispatched
CHECK_DEADLOCK FALSE
