CONSTANTS
    None = None
    Gateways = {g1}
    RouteRequests = {r1}
    InterruptRequests = {i1}
    DrainRequests = {d1}
    RequireCanary = TRUE
    InitialVersion = 1
    MaxSessions = 1
    MaxFaults = 1
    SendCap = 1
    AckCap = 4
SPECIFICATION FairSpec
CHECK_DEADLOCK FALSE
INVARIANTS SuccessIsDurable DrainedLeavesQuorum
PROPERTIES EveryRequestAnswered ReadyGatewayJoinsQuorum
