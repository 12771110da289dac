SPECIFICATION FairSpec
CONSTANTS
    CanEscape = TRUE
    MaxPrints = 1
    MaxInterrupts = 2
    PipeCap = 1
    NetCap = 2
INVARIANTS
    OnlyItsCommand
PROPERTIES
    ImplementsRemoteRun
    SessionEnds
CHECK_DEADLOCK FALSE
