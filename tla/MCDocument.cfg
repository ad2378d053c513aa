\* A start may end where it is refused, and a domain need not stop: CHECK_DEADLOCK FALSE.
SPECIFICATION FairSpec
CONSTANTS
    eth = eth
    br = br
    p1 = p1
    p2 = p2
    stick = stick
    radio = radio
    None = None
    Unasked = Unasked
    Nameless = Nameless
    MostDevices = 4
    Letters = 2
    MostExtents = 3
    MaxId = 3
    Links <- MCLinks
    Ports <- MCPorts
    Ids <- MCIds
    Worlds <- MCWorlds
    Starts <- MCStarts
    Unsteady <- MCUnsteady
INVARIANTS
    IdmapAsKernel
    TargetsAreUnique
    AddressesHaveControllers
    DevicesAsAsked
    DriverNodesPresent
    PinsAreTheSet
PROPERTY
    ProxiesEnd
CHECK_DEADLOCK FALSE
