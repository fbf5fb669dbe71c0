SPECIFICATION ClusterSpec
CONSTANTS
    s1 = s1
    s2 = s2
    u1 = u1
    u2 = u2
    u3 = u3
    w1 = w1
    w2 = w2
    w3 = w3
    v = v
    NoWs = NoWs
    NoSid = NoSid
    Sfus = {s1}
    Peers = {}
    Users = {u1, u2}
    Sockets = {w1, w2}
    Media = {v}
    Home <- HomeOf
    Speaks <- SpeaksFor
    WhipUsers = {}
    Audiences = {FALSE}
    Offers = {{v}}
    HasCenter = TRUE
    HasMsu = FALSE
    MaxEpoch = 1
    MaxQueue = 2
    MaxSess = 1
    MaxPort = 0
    MaxGen = 1
INVARIANTS
    OwnUserStaysLocal
CHECK_DEADLOCK FALSE
