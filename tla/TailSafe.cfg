SPECIFICATION Spec
CONSTANTS
    Dialers = {}
    v1 = v1
    v2 = v2
    Servers = {v1, v2}
    s1 = s1
    Stoppers = {s1}
    p1 = p1
    p2 = p2
    Proc = {p1, p2}
    NoProc = NoProc
    NoClient = NoClient
    HasLock = TRUE
    LoggedIn = FALSE
    Healthy = FALSE
    MaxSessions = 1
    MaxCrashes = 1
INVARIANTS
    CountsInStep
    OneReachableNode
    ServedBeforeTeardown
    LogGoesToServer
PROPERTIES
    ImplementsSharedNode
SYMMETRY Symmetry
CHECK_DEADLOCK FALSE
