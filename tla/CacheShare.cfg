SPECIFICATION Spec
CONSTANTS
    s1 = s1
    s2 = s2
    a = a
    b = b
    Session = {s1, s2}
    Hash = {a, b}
    Files <- Wanted
    InitCached = {b}
    MaxAge = 1
    MaxTime = 2
    Wipes = TRUE
    MaxCrashes = 1
    NoFile = NoFile
    NoHash = NoHash
INVARIANTS
    CacheIsSound
    TreeIsExact
    OnlyOwnUploadFails
CHECK_DEADLOCK FALSE
