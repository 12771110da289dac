SPECIFICATION Spec
CONSTANTS
    d1 = d1
    d2 = d2
    Dialers = {d1, d2}
    Servers = {}
    Stoppers = {}
    p1 = p1
    p2 = p2
    Proc = {p1, p2}
    NoProc = NoProc
    NoClient = NoClient
    HasLock = TRUE
    LoggedIn = TRUE
    Healthy = TRUE
    MaxSessions = 0
    MaxCrashes = 0
PROPERTIES
    HangupIsRetried
SYMMETRY Symmetry
CHECK_DEADLOCK FALSE
