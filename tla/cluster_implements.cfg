SPECIFICATION ClusterSpec
CONSTANTS
    s1 = s1
    s2 = s2
    u1 = u1
    u2 = u2
    u3 = u3
    w1 = w1
    w2 = w2
    w3 = w3
    v = v
    NoWs = NoWs
    NoSid = NoSid
    Sfus = {s1, s2}
    Peers = {}
    Users = {u1, u2}
    Sockets = {w1, w3}
    Media = {v}
    Home <- HomeOf
    Speaks <- SpeaksFor
    WhipUsers = {}
    Audiences = {FALSE}
    Offers = {{v}}
    HasCenter = TRUE
    HasMsu = TRUE
    MaxEpoch = 2
    MaxQueue = 1
    MaxSess = 1
    MaxPort = 1
    MaxGen = 1
CONSTRAINT PusherAndPuller
PROPERTIES
    ImplementsSfuRoom
CHECK_DEADLOCK FALSE
