SPECIFICATION FairSpec
CONSTANTS
    r1 = r1
    r2 = r2
    Revs <- TwoRevs
    Branch = Branch
    Tip = r2
    None = None
    MaxSignals = 2
    MaxFaults = 1
INVARIANTS
    EndsClean
    FailureIsTold
PROPERTIES
    SignalObeyed
