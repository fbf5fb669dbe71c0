SPECIFICATION Spec
CONSTANTS
    s1 = s1
    u1 = u1
    u2 = u2
    w1 = w1
    w3 = w3
    v = v
    NoWs = NoWs
    Sfus = {s1}
    Peers = {}
    Users = {u1, u2}
    Sockets = {w1}
    Media = {v}
    Home <- HomeIsS1
    Speaks <- TwoUsersOfW3
    WhipUsers = {}
    Audiences = {FALSE}
    Offers = {{v}}
    HasCenter = TRUE
    MaxEpoch = 1
    MaxQueue = 1
    MaxSess = 1
    MaxPort = 1
    MaxGen = 1
INVARIANTS
    RelayMapsAgree
CONSTRAINT OneRoom
CHECK_DEADLOCK FALSE
