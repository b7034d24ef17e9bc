CONSTANTS
    None = None
    Gateways = {g1, g2}
    RouteRequests = {r1}
    InterruptRequests = {}
    DrainRequests = {}
    RequireCanary = FALSE
    InitialVersion = 0
    MaxSessions = 2
    MaxFaults = 0
    SendCap = 4
    AckCap = 4
SPECIFICATION Spec
CHECK_DEADLOCK FALSE
INVARIANT ReadyGatewaysAgree
