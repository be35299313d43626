SPECIFICATION MCSpec
CONSTANTS
    c1 = c1
    c2 = c2
    c3 = c3
    NoConn = NoConn
    Conns = {c1, c2, c3}
    MaxRequests = 3
    HandlerModes = {"reply", "retain"}
    TimedConns = {c1, c2, c3}
SYMMETRY Symmetry
CHECK_DEADLOCK FALSE
INVARIANTS TypeOK Lifetime TimerEndsWithSession AcceptLoopAlive ThreadsOutliveService
    CleanReturn HalfDuplex EarlierRequestsAnswered
PROPERTIES BufferStable AnswersLatestRequest NoReplyLost ImplementsSession
