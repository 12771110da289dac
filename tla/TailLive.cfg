SPECIFICATION LiveSpec
CONSTANTS
    d1 = d1
    Dialers = {d1}
    v1 = v1
    Servers = {v1}
    Stoppers = {}
    p1 = p1
    p2 = p2
    Proc = {p1, p2}
    NoProc = NoProc
    NoClient = NoClient
    HasLock = TRUE
    LoggedIn = FALSE
    Healthy = FALSE
    MaxSessions = 0
    MaxCrashes = 0
PROPERTIES
    CommandsReturn
    DaemonsExit
CHECK_DEADLOCK FALSE
