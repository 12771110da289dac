SPECIFICATION FairSpec
CONSTANTS
    c1 = c1
    c2 = c2
    p = p
    q = q
    Conn = {c1, c2}
    Password = {p, q}
    NoPassword = NoPassword
    Passwords <- Configurations
    MaxSessions = 1
    MaxErrors = 1
INVARIANTS
    Authentic
    NobodyWaitsForNobody
    NoDeadlineInSession
PROPERTIES
    SlotsMove
    EveryDialEnds
CHECK_DEADLOCK FALSE
