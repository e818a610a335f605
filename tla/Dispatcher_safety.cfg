SPECIFICATION Spec
CONSTANTS
    Request = {r1, r2}
    Worker = {w1, w2}
    LiveDefault = 2
    Phantom = Phantom
    NoRequest = NoRequest
SYMMETRY Peers
INVARIANTS
    TypeOK
    ParkedRequestHasWakeup
    OneCreditPerWorker
    RequestNowhereTwice
    HeartbeatDebt
PROPERTY
    ImplementsBroker
CHECK_DEADLOCK FALSE
