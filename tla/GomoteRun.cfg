SPECIFICATION FairSpec
CONSTANTS
    a = a
    b = b
    i1 = i1
    i2 = i2
    i3 = i3
    i4 = i4
    linux = linux
    plan9 = plan9
    s1 = s1
    t1 = t1
    None = None
    Clients = {a, b}
    Builder <- OneBuilder
    Builds = {a}
    Insts = {i1, i2, i3, i4}
    BuilderOf <- InstBuilder
    Others = {i3}
    Standing = {i4}
    Background = {s1, t1}
    Supports <- AllWays
    Wedges = {"parent", "helper"}
    MaxFaults = 2
INVARIANTS
    GomotesAreOurs
    DialIsTidy
PROPERTIES
    DialEnds
