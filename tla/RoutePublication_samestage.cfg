CONSTANTS
    None = None
    Gateways = {g1}
    RouteRequests = {r1, r2}
    InterruptRequests = {}
    DrainRequests = {}
    RequireCanary = FALSE
    InitialVersion = 0
    MaxSessions = 1
    MaxFaults = 0
    SendCap = 4
    AckCap = 4
SPECIFICATION Spec
CHECK_DEADLOCK FALSE
INVARIANT SuccessIsCommitted
