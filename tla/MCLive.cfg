SPECIFICATION FairSpec
CONSTANTS
    c1 = c1
    c2 = c2
    NoConn = NoConn
    Conns = {c1, c2}
    MaxRequests = 2
    HandlerModes = {"reply", "retain"}
    TimedConns = {c1}
CHECK_DEADLOCK FALSE
PROPERTIES StopReturns ConnectionsEnd RequestsAnswered
