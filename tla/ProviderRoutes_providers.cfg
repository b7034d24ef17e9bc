CONSTANTS
    None = None
    Unset = Unset
    RouteRequests = {r1, r2, r3}
    ManualRequests = {r2, r3}
    PutRequests = {p1}
    InitialVersion = 1
    Versions = {1}
    Providers = {1, 2}
    InitialProviders <- MCInitialProviders
    PutBodies <- MCPutBodies
    Queries <- MCQueries
    Countries <- MCCountries
    NormalCountry <- MCNormalCountry
    Blank = ""
    CountryText <- MCCountryText
    SecretNames = {"key", "id", "no"}
    OddValues = {"{{odd}}"}
    MaxWord = 15
    MaxWeight = 4
    MaxPort = 8
SPECIFICATION Spec
CHECK_DEADLOCK FALSE
SYMMETRY Symmetry
INVARIANTS NoLockCycle AcceptedProvidersGenerate SelectionFollowsWeights PublishedFromEnabledProvider
PROPERTY ImplementsRouteStore
