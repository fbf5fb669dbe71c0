SPECIFICATION Spec
CONSTANTS
    Callers = {room, mgr}
    MaxClients = 3
    MaxPeriods = 2
    MaxRequests = 2
    MaxWire = 2
    None = None
INVARIANTS
    TypeOK
    ConnectedMeansOpen
    AnswersReachTheirCaller
PROPERTY ImplementsCenterLink
CHECK_DEADLOCK FALSE
