CONSTANTS
    None = None
    d1 = d1
    d2 = d2
    d3 = d3
    Devices <- MCDevices
    Ports <- MCPorts
    Gateways = {g1, g2}
    CreateRequests = {c1}
    RotateRequests = {o1}
    AddRequests = {a1, a2}
    DeleteRequests = {x1}
    RouteRequests = {r1}
    DeviceRequests <- MCRequests
    InitialDevices <- MCInitialDevices
    Asks <- MCAsks
    InitialVersions <- MCInitialVersions
    StartTime = 1
    MaxRequests = 2
    MaxFaults = 1
SPECIFICATION Spec
CHECK_DEADLOCK FALSE
SYMMETRY Symmetry
INVARIANTS ListenersMatchTable DeviceRowsConsistent LastChangeIsHeld SnapshotsCanBeServed
PROPERTY OwnedIngressKeepsServing
