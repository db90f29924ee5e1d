SPECIFICATION RoutingSpec
CONSTANTS
    a = a
    b = b
    \* NodeHealth: an honest peer and a liar probe the node, or nobody does.
    Peers = {"honest", "liar"}
    Liars = {"liar"}
    Calls = {a, b}
    FAILURE_THRESHOLD = 2
    SUCCESS_THRESHOLD = 1
    MaxReports = 3
    MaxOrders = 1
    OverlappingReports = FALSE
    \* RouteDirectory
    Hosts = {1, 2, 3}
    Exits = {1, 2}
    HostLocation <- MCHostLocation
    FailureDomain <- MCFailureDomain
    Capacity = 1
    CANARY_SESSION_CAP = 1
    MAX_CANDIDATES = 1
    Paths <- MCPaths
    Isolates = {a, b}
    Customers = {"c"}
    MaxFleetChanges = 2
    SignersApart = TRUE
    \* NodeEnrollment: two servers are set up for one node, or one after the other.
    NodeIds = {"x"}
    Machines = {a, b}
    MaxTokens = 2
    MaxCrashes = 1
    MaxMoves = 2
SYMMETRY Symmetry
INVARIANTS
    RoutingTypeOK
    DirectoryHolds
PROPERTIES
    
    EnrollmentHolds
CHECK_DEADLOCK FALSE
