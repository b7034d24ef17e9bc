CONSTANTS
    None = None
    Gateways = {g1}
    RouteRequests = {r1, r2}
    InterruptRequests = {}
    DrainRequests = {}
    RequireCanary = TRUE
    InitialVersion = 1
    MaxSessions = 3
    MaxFaults = 2
    SendCap = 4
    AckCap = 4
SPECIFICATION Spec
CHECK_DEADLOCK FALSE
SYMMETRY Symmetry
INVARIANTS NeverAhead ServedNeverRollsBack SuccessIsDurable
