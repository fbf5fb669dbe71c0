SPECIFICATION FairSpec
CONSTANTS
    s1 = s1
    u1 = u1
    u2 = u2
    w1 = w1
    w3 = w3
    v = v
    NoWs = NoWs
    Sfus = {s1}
    Peers = {}
    Users = {u1, u2}
    Sockets = {w1, w3}
    Media = {v}
    Home <- HomeIsS1
    Speaks <- OneUserEach
    WhipUsers = {}
    Audiences = {FALSE}
    Offers = {{v}}
    HasCenter = FALSE
    MaxEpoch = 0
    MaxQueue = 0
    MaxSess = 1
    MaxPort = 0
    MaxGen = 2
PROPERTIES
    DesertedRoomRemoved
CHECK_DEADLOCK FALSE
