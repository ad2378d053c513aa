CONSTANTS
    u1 = u1
    u2 = u2
    c1 = c1
    c2 = c2
    Uuids = {u1, u2}
    Callers = {c1, c2}
    EventLoop = EventLoop
    Nobody = Nobody
    Ops = {"start", "destroy", "delete"}
    CarefulCallers = FALSE
    DeleteOutwaits = FALSE
    MaxCalls = 3
    MaxRestarts = 1
    Timeout = 1
SPECIFICATION Spec
SYMMETRY CallerSymmetry
CHECK_DEADLOCK FALSE
INVARIANT StaleEntryAwaitsItsStop
