\* Two callers and the event loop, a connection that dies, a stop. At the bound on
\* opened connections everything may stop: CHECK_DEADLOCK FALSE.
SPECIFICATION FairSpec
CONSTANTS
    c1 = c1
    c2 = c2
    Callers = {c1, c2}
    EventLoop = EventLoop
    MaxOpens = 4
    MaxDeaths = 1
    MaxStops = 1
CHECK_DEADLOCK FALSE
INVARIANTS TypeOK ListensBeforeUse OnceUnlessRaced
PROPERTIES ReturnsWorking StopsAreHandled
