SPECIFICATION Spec
CONSTANTS
    w1 = w1
    w2 = w2
    auto = auto
    linux = linux
    vax = vax
    old = old
    v0 = v0
    v1 = v1
    v2 = v2
    v3 = v3
    NoVal = NoVal
    NoInode = NoInode
    Setters = {w1, w2}
    Autos = {auto}
    Key = {linux, vax, old}
    Value = {v0, v1, v2, v3}
    KeyOf <- KeyOfWriter
    ValueOf <- ValueOfWriter
    Initial <- InitialMap
    Inode <- Inodes
    MaxFaults = 2
INVARIANTS
    WritersPrevail
PROPERTIES
    ImplementsAtomicMap
    AutoOnlyAdds
CHECK_DEADLOCK FALSE
