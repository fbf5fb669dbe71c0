SPECIFICATION Spec
CONSTANTS
    k1 = k1
    k2 = k2
    Keys <- TwoStreams
    Addrs = {a1}
    Rtmp = {r1}
    Flv = {f1}
    WsPlay = {p1, p2}
    WsPub = {q1}
    WsIds = {i1}
    MaxWriters = 2
    MaxPackets = 3
    MaxTotal = 4
    None = None
CONSTRAINT SmallStreams
INVARIANTS
    TypeOK
    NoDanglingWriter
    PlayersSeeWholeGops
    HeadersComeFirst
    StreamsAreReleased
CHECK_DEADLOCK FALSE
