SPECIFICATION FairWireSpec
CONSTANTS
    w1 = w1
    w2 = w2
    a = a
    b = b
    c = c
    Writer = {w1, w2}
    NoWriter = NoWriter
    Packet = {a, b, c}
    NoPacket = NoPacket
    ToSend <- Program
    JSize <- JSizes
    DSize <- DSizes
    Layer = {"plain", "secure", "hex"}
    MaxPlaintext = 2
    HexLine = 2
INVARIANTS
    StreamIsExact
PROPERTIES
    ImplementsPacketQueue
    EverythingArrives
CHECK_DEADLOCK FALSE
