CONSTANTS
    None = None
    Gateways = {g1, g2}
    RouteRequests = {r1, r2}
    InterruptRequests = {}
    DrainRequests = {}
    RequireCanary = FALSE
    InitialVersion = 0
    MaxSessions = 2
    MaxFaults = 1
    SendCap = 4
    AckCap = 4
SPECIFICATION Spec
CHECK_DEADLOCK FALSE
SYMMETRY Symmetry
INVARIANTS TypeOK NeverAhead ServedNeverRollsBack SuccessIsDurable ActivateFindsPrepared AckReachesItsWaiter
PROPERTY ImplementsPublishedRoutes
