CONSTANTS
    u1 = u1
    u2 = u2
    c1 = c1
    c2 = c2
    Uuids = {u1}
    Callers = {c1, c2}
    EventLoop = EventLoop
    Nobody = Nobody
    Ops = {"start", "destroy", "delete"}
    CarefulCallers = TRUE
    DeleteOutwaits = TRUE
    MaxCalls = 3
    MaxRestarts = 0
    Timeout = 1
SPECIFICATION Spec
CHECK_DEADLOCK FALSE
PROPERTY CallbackCleansUp
