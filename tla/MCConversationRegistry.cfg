SPECIFICATION FairSpec
CONSTANTS
    c1 = c1
    c2 = c2
    c3 = c3
    Conns <- MCConns
    NoConn = NoConn
    MaxPrompts = 1
    SerialHandshakes = FALSE
INVARIANTS
    OneEvictor
    EvictionIsFinal
PROPERTY ClosedSocketStopsPipeline
CHECK_DEADLOCK FALSE
