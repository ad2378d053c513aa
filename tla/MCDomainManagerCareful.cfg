\* Callers start a domain at rest only. A process with no calls left may stop:
\* CHECK_DEADLOCK FALSE.
SPECIFICATION FairSpec
CONSTANTS
    u1 = u1
    u2 = u2
    c1 = c1
    c2 = c2
    Uuids = {u1, u2}
    Callers = {c1, c2}
    EventLoop = EventLoop
    Nobody = Nobody
    Ops = {"start", "destroy", "shutdown", "suspend", "resume"}
    CarefulCallers = TRUE
    DeleteOutwaits = FALSE
    MaxCalls = 3
    MaxRestarts = 1
    Timeout = 1
CHECK_DEADLOCK FALSE
INVARIANTS TypeOK RunningKeepsStaging LeftoversAreOwed
PROPERTIES ImplementsStaging CallsReturn
